---------------------------- MODULE Spec2Model ----------------------------
(***************************************************************************)
(* omg-learn: a policy-matching engine for agent-host lifecycle hooks.     *)
(*                                                                         *)
(* The state is the two pattern store files (global, local) and the        *)
(* record of the last process that ran (a hook invocation or a             *)
(* PatternTester call).  Every hook is a one-shot process that reads both  *)
(* files, walks the merged pattern list and emits one response, so each    *)
(* hook is one action; its body is the source's loop, written as a         *)
(* recursive operator over the list index.                                 *)
(*                                                                         *)
(* Strings are TLA+ strings (sequences of characters): Len, SubSeq and \o  *)
(* are the Sequences operators.  The warning and info glyphs the source    *)
(* prints are written as ASCII tags.                                       *)
(***************************************************************************)
EXTENDS Integers, Sequences, FiniteSets, TLC

\* globalFile, localFile: the two store files of `platform` (~/.<platform>/
\* and ./.<platform>/omg-learn-patterns.json); last: the process that ran last;
\* tmp: the omg-learn-patterns.tmp file beside each store file; call: the
\* PatternManager call in progress or returned last
VARIABLES platform, globalFile, localFile, last, tmp, call

vars == <<platform, globalFile, localFile, last, tmp, call>>

-----------------------------------------------------------------------------
(* Bounds of the model *)

MaxGlobal == 2
MaxLocal == 1

\* the patterns the two stores hold together before the model stops adding
MaxStored == 3

-----------------------------------------------------------------------------
(* Python string primitives *)

Ch(s, i) == SubSeq(s, i, i)

UpperToLower ==
    [A |-> "a", B |-> "b", C |-> "c", D |-> "d", E |-> "e", F |-> "f",
     G |-> "g", H |-> "h", I |-> "i", J |-> "j", K |-> "k", L |-> "l",
     M |-> "m", N |-> "n", O |-> "o", P |-> "p", Q |-> "q", R |-> "r",
     S |-> "s", T |-> "t", U |-> "u", V |-> "v", W |-> "w", X |-> "x",
     Y |-> "y", Z |-> "z"]

LowerCh(c) == IF c \in DOMAIN UpperToLower THEN UpperToLower[c] ELSE c

RECURSIVE Lower(_)
Lower(s) == IF s = "" THEN "" ELSE LowerCh(Ch(s, 1)) \o Lower(SubSeq(s, 2, Len(s)))

\* needle in hay
Contains(hay, needle) ==
    \E i \in 1..(Len(hay) + 1) :
        /\ i + Len(needle) - 1 <= Len(hay)
        /\ SubSeq(hay, i, i + Len(needle) - 1) = needle

IsSpace(c) == c \in {" ", "\t", "\n", "\r"}

RECURSIVE LStrip(_)
LStrip(s) == IF s # "" /\ IsSpace(Ch(s, 1)) THEN LStrip(SubSeq(s, 2, Len(s))) ELSE s

RECURSIVE RStrip(_)
RStrip(s) ==
    IF s # "" /\ IsSpace(Ch(s, Len(s))) THEN RStrip(SubSeq(s, 1, Len(s) - 1)) ELSE s

Strip(s) == LStrip(RStrip(s))

\* s.split(sep) for a one-character separator: the set of the parts
RECURSIVE SplitFrom(_, _, _, _)
SplitFrom(s, sep, i, cur) ==
    IF i > Len(s) THEN {cur}
    ELSE IF Ch(s, i) = sep THEN {cur} \cup SplitFrom(s, sep, i + 1, "")
    ELSE SplitFrom(s, sep, i + 1, cur \o Ch(s, i))

Split(s, sep) == SplitFrom(s, sep, 1, "")

\* the last index of character c in s, 0 when absent (str.rfind + 1)
RECURSIVE RFind(_, _, _)
RFind(s, c, i) == IF i = 0 THEN 0 ELSE IF Ch(s, i) = c THEN i ELSE RFind(s, c, i - 1)

-----------------------------------------------------------------------------
(* re.search for the regular expressions the patterns use: literals, `.`,  *)
(* a postfix `*`, a backslash escape, `^` at the start and `$` at the end. *)
(* A `*` with nothing to repeat, a second `*`, a trailing backslash and an *)
(* unclosed `(` or `[` make re.compile raise re.error.                     *)

\* tokens: [c: the character, lit: escaped or ordinary, star: repeated]
RECURSIVE Tokens(_, _)
Tokens(r, i) ==
    IF i > Len(r) THEN << >>
    ELSE LET esc == Ch(r, i) = "\\"
             c == IF esc THEN Ch(r, i + 1) ELSE Ch(r, i)
             n == IF esc THEN i + 2 ELSE i + 1
             star == n <= Len(r) /\ Ch(r, n) = "*"
         IN  <<[c |-> c, lit |-> esc \/ c \notin {".", "^", "$"}, star |-> star]>>
                 \o Tokens(r, IF star THEN n + 1 ELSE n)

RECURSIVE RegexErrorFrom(_, _, _)
RegexErrorFrom(r, i, repeatable) ==
    IF i > Len(r) THEN FALSE
    ELSE LET c == Ch(r, i)
         IN  IF c = "\\" THEN i = Len(r) \/ RegexErrorFrom(r, i + 2, TRUE)
             ELSE IF c = "*" THEN ~repeatable \/ RegexErrorFrom(r, i + 1, FALSE)
             ELSE IF c \in {"(", ")", "["} THEN TRUE
             ELSE RegexErrorFrom(r, i + 1, c \notin {"^"})

RegexError(r) == RegexErrorFrom(r, 1, FALSE)

AtomMatches(tok, c, ignorecase) ==
    IF ~tok.lit /\ tok.c = "." THEN c # "\n"
    ELSE IF ignorecase THEN LowerCh(tok.c) = LowerCh(c)
    ELSE tok.c = c

RECURSIVE MatchHere(_, _, _, _, _)
MatchHere(toks, k, text, i, ignorecase) ==
    IF k > Len(toks) THEN TRUE
    ELSE LET tok == toks[k]
         IN  IF ~tok.lit /\ tok.c = "^" THEN i = 1 /\ MatchHere(toks, k + 1, text, i, ignorecase)
             ELSE IF ~tok.lit /\ tok.c = "$" THEN
                 /\ \/ i = Len(text) + 1
                    \/ i = Len(text) /\ Ch(text, i) = "\n"
                 /\ MatchHere(toks, k + 1, text, i, ignorecase)
             ELSE IF tok.star THEN
                 \E j \in i..(Len(text) + 1) :
                     /\ \A m \in i..(j - 1) : AtomMatches(tok, Ch(text, m), ignorecase)
                     /\ MatchHere(toks, k + 1, text, j, ignorecase)
             ELSE /\ i <= Len(text)
                  /\ AtomMatches(tok, Ch(text, i), ignorecase)
                  /\ MatchHere(toks, k + 1, text, i + 1, ignorecase)

\* (mutant of ReSearch: re.match, which looks at the start of the text only)
ReSearch_Anchored(regex, text, ignorecase) ==
    MatchHere(Tokens(regex, 1), 1, text, 1, ignorecase)

\* re.search(regex, text, flags) is not None, for a regex that compiles
ReSearch(regex, text, ignorecase) ==
    \E i \in 1..(Len(text) + 1) : MatchHere(Tokens(regex, 1), 1, text, i, ignorecase)

-----------------------------------------------------------------------------
(* Pattern records and the store files *)

\* dict.get(key, default): a pattern is a record that holds only the fields
\* its JSON object holds
Get(p, key, default) == IF key \in DOMAIN p THEN p[key] ELSE default

\* a JSON string met where the script expects an object: it has no .get
JsonText(text) == [json |-> "string", value |-> text]
IsObject(v) == "json" \notin DOMAIN v

\* (mutant of IsEnabled: the test is left out)
IsEnabled_Always(p) == TRUE

\* pattern.get('enabled', True): the "Skip if disabled" test of every loop
IsEnabled(p) == Get(p, "enabled", TRUE)

\* a store file: absent, not parsable as JSON, or a {version, patterns} document
MissingFile == [kind |-> "missing"]
CorruptFile == [kind |-> "corrupt"]
Doc(patterns) == [kind |-> "doc", version |-> "1.0", patterns |-> patterns]

\* a file opened for writing and not yet written to the end
PartialFile == [kind |-> "partial"]

\* no temporary file on disk, no repository call made
NoTemp == [path \in {"global.tmp", "local.tmp"} |-> MissingFile]
NoCall == [pc |-> "none"]

\* load_patterns of the hooks: a file that cannot be opened or parsed is []
load_patterns(file) == IF file.kind = "doc" THEN file.patterns ELSE << >>

\* read_json_file(...).get('patterns', []) of the library
read_patterns(file) == IF file.kind = "doc" THEN file.patterns ELSE << >>

\* (mutant of DictPut: the first pattern stored under an id is kept)
DictPut_KeepsFirst(values, p) ==
    IF \E i \in 1..Len(values) : values[i].id = p.id THEN values ELSE Append(values, p)

\* d[key] = p on an insertion-ordered dict, kept as the list of its values:
\* an existing key keeps its position, a new key goes last
DictPut(values, p) ==
    IF \E i \in 1..Len(values) : values[i].id = p.id
    THEN [i \in 1..Len(values) |-> IF values[i].id = p.id THEN p ELSE values[i]]
    ELSE Append(values, p)

RECURSIVE DictPutAll(_, _, _)
DictPutAll(values, ps, i) ==
    IF i > Len(ps) THEN values
    ELSE DictPutAll(IF "id" \in DOMAIN ps[i] THEN DictPut(values, ps[i]) ELSE values,
                    ps, i + 1)

\* (mutant of MergedPatterns: one unreadable store file empties the whole list)
MergedPatterns_AllOrNothing(gfile, lfile) ==
    IF gfile.kind = "doc" /\ lfile.kind = "doc"
    THEN DictPutAll(DictPutAll(<< >>, gfile.patterns, 1), lfile.patterns, 1)
    ELSE << >>

\* the merge every hook script performs: global first, then local over it
MergedPatterns(gfile, lfile) ==
    DictPutAll(DictPutAll(<< >>, load_patterns(gfile), 1), load_patterns(lfile), 1)

RECURSIVE DictPutTruthy(_, _, _)
DictPutTruthy(values, ps, i) ==
    IF i > Len(ps) THEN values
    ELSE DictPutTruthy(IF Get(ps[i], "id", "") # "" THEN DictPut(values, ps[i]) ELSE values,
                       ps, i + 1)

\* json_utils.merge_patterns: as the hooks' merge, with a falsy id dropped too
merge_patterns(gfile, lfile) ==
    DictPutTruthy(DictPutTruthy(<< >>, read_patterns(gfile), 1), read_patterns(lfile), 1)

-----------------------------------------------------------------------------
(* The environment of one process: what the check script is on disk and    *)
(* does when run, and what the run-action command does.                    *)

\* env.script: at = "here" (the path names a file), "dotdir" (only
\* .<platform>/<path> does) or "none"; run = what running it ends in
ScriptIsFile(env) == env.script.at = "here"

\* what a process leaves behind: the JSON objects or lines it printed, its
\* exit code, the children it tried to start (with the index of the pattern
\* that asked for them) and the index of the pattern that fired (0: none)
Outcome(stdout, stderr, exit, spawned, fired) ==
    [stdout |-> stdout, stderr |-> stderr, exit |-> exit, spawned |-> spawned,
     fired |-> fired]

\* an exception nothing catches: the traceback goes to stderr, exit code 1
Crash(what, spawned) == Outcome(<< >>, <<[traceback |-> what]>>, 1, spawned, 0)

WarnPrefix == "[warning-sign] Warning: "

-----------------------------------------------------------------------------
(* before-shell.py (gating dialect, beforeShellExecution) *)

BeforeShellRespond(p) ==
    LET action == Get(p, "action", "warn")
        message == Get(p, "message", "Pattern matched")
    IN  IF action = "block" THEN [allowed |-> FALSE, message |-> message]
        ELSE [allowed |-> TRUE, message |-> WarnPrefix \o message]

RECURSIVE BeforeShellLoop(_, _, _, _, _)
BeforeShellLoop(patterns, i, command, env, spawned) ==
    IF i > Len(patterns) THEN Outcome(<<[allowed |-> TRUE]>>, << >>, 0, spawned, 0)
    ELSE
    LET p == patterns[i]
        skip == BeforeShellLoop(patterns, i + 1, command, env, spawned)
        fire == Outcome(<<BeforeShellRespond(p)>>, << >>, 0, spawned, i)
        matcher == Get(p, "matcher", "")
        check_script == Get(p, "check_script", "")
        pattern_regex == Get(p, "pattern", "")
        exclude == Get(p, "exclude_pattern", "")
        ran == Append(spawned, [argv |-> <<check_script, command>>, by |-> i,
                                 ended |-> env.script.run])
    IN  IF ~IsEnabled(p) THEN skip
        ELSE IF Get(p, "hook", "") \notin {"PreToolUse", "beforeShellExecution"} THEN skip
        ELSE IF matcher # "" /\ matcher \notin {"*", "Bash"} THEN skip
        ELSE IF check_script # "" /\ ScriptIsFile(env) THEN
            IF env.script.run = "exit1"
            THEN Outcome(<<BeforeShellRespond(p)>>, << >>, 0, ran, i)
            ELSE BeforeShellLoop(patterns, i + 1, command, env, ran)
        ELSE IF pattern_regex = "" THEN skip
        ELSE IF RegexError(pattern_regex) THEN Crash("re.error", spawned)
        ELSE IF ~ReSearch(pattern_regex, command, FALSE) THEN skip
        ELSE IF exclude = "" THEN fire
        ELSE IF RegexError(exclude) THEN Crash("re.error", spawned)
        ELSE IF ReSearch(exclude, command, FALSE) THEN skip
        ELSE fire

Reversed(ps) == [i \in 1..Len(ps) |-> ps[Len(ps) + 1 - i]]

\* (mutant of before_shell: the loop does not stop at the first match, so the
\* last matching pattern answers)
before_shell_LastWins(stdin, gfile, lfile, env) ==
    IF stdin.kind # "object" THEN Outcome(<<[allowed |-> TRUE]>>, << >>, 0, << >>, 0)
    ELSE BeforeShellLoop(Reversed(MergedPatterns(gfile, lfile)), 1,
                         Get(stdin.data, "command", ""), env, << >>)

before_shell(stdin, gfile, lfile, env) ==
    IF stdin.kind # "object" THEN Outcome(<<[allowed |-> TRUE]>>, << >>, 0, << >>, 0)
    ELSE BeforeShellLoop(MergedPatterns(gfile, lfile), 1,
                         Get(stdin.data, "command", ""), env, << >>)

-----------------------------------------------------------------------------
(* omg-learn-tool-checker.py (richer dialect, PreToolUse) *)

\* (mutant of ToolCheckerRespond: `ask` is not told apart from a warning)
ToolCheckerRespond_NoAsk(p) ==
    LET action == Get(p, "action", "warn")
        message == Get(p, "message", "Pattern matched")
    IN  IF action = "block" THEN [permission |-> "deny", user_message |-> message]
        ELSE [permission |-> "allow", agent_message |-> WarnPrefix \o message]

ToolCheckerRespond(p) ==
    LET action == Get(p, "action", "warn")
        message == Get(p, "message", "Pattern matched")
    IN  IF action = "block" THEN [permission |-> "deny", user_message |-> message]
        ELSE IF action = "ask" THEN [permission |-> "ask", user_message |-> message]
        ELSE [permission |-> "allow", agent_message |-> WarnPrefix \o message]

RECURSIVE ToolCheckerLoop(_, _, _, _, _, _)
ToolCheckerLoop(patterns, i, tool_name, tool_input, env, spawned) ==
    IF i > Len(patterns) THEN Outcome(<<[permission |-> "allow"]>>, << >>, 0, spawned, 0)
    ELSE
    LET p == patterns[i]
        skip == ToolCheckerLoop(patterns, i + 1, tool_name, tool_input, env, spawned)
        fire == Outcome(<<ToolCheckerRespond(p)>>, << >>, 0, spawned, i)
        matcher == Get(p, "matcher", "")
        check_script == Get(p, "check_script", "")
        pattern_regex == Get(p, "pattern", "")
        exclude == Get(p, "exclude_pattern", "")
        \* subprocess.run raises before any child exists unless the path is a file
        ended == IF ScriptIsFile(env) THEN env.script.run ELSE "noexec"
        ran == Append(spawned, [argv |-> <<check_script, tool_input>>, by |-> i,
                                 ended |-> ended])
    IN  IF ~IsEnabled(p) THEN skip
        ELSE IF Get(p, "hook", "") # "PreToolUse" THEN skip
        ELSE IF matcher # "" /\ matcher # "*" /\ matcher # tool_name THEN skip
        ELSE IF check_script # "" THEN
            IF ended = "exit1"
            THEN Outcome(<<ToolCheckerRespond(p)>>, << >>, 0, ran, i)
            ELSE ToolCheckerLoop(patterns, i + 1, tool_name, tool_input, env, ran)
        ELSE IF pattern_regex = "" THEN skip
        ELSE IF RegexError(pattern_regex) THEN Crash("re.error", spawned)
        ELSE IF ~ReSearch(pattern_regex, tool_input, FALSE) THEN skip
        ELSE IF exclude = "" THEN fire
        ELSE IF RegexError(exclude) THEN Crash("re.error", spawned)
        ELSE IF ReSearch(exclude, tool_input, FALSE) THEN skip
        ELSE fire

\* tool_input_obj.get('command') or .get('file_path') or .get('content') or ''
PrimaryText(tool_input_obj) ==
    IF Get(tool_input_obj, "command", "") # "" THEN tool_input_obj.command
    ELSE IF Get(tool_input_obj, "file_path", "") # "" THEN tool_input_obj.file_path
    ELSE Get(tool_input_obj, "content", "")

\* tool_input_obj.get(...) is inside the try: a tool_input without .get is
\* answered like input that does not parse
tool_checker(stdin, gfile, lfile, env) ==
    IF stdin.kind # "object" THEN Outcome(<<[permission |-> "allow"]>>, << >>, 0, << >>, 0)
    ELSE IF ~IsObject(Get(stdin.data, "tool_input", [x \in {} |-> ""]))
    THEN Outcome(<<[permission |-> "allow"]>>, << >>, 0, << >>, 0)
    ELSE ToolCheckerLoop(MergedPatterns(gfile, lfile), 1,
                         Get(stdin.data, "tool_name", ""),
                         PrimaryText(Get(stdin.data, "tool_input", [x \in {} |-> ""])),
                         env, << >>)

-----------------------------------------------------------------------------
(* before-prompt.py (gating dialect) and omg-learn-prompt-checker.py       *)
(* (exit-code dialect): the prompt hooks                                   *)

BeforePromptRespond(p) ==
    LET action == Get(p, "action", "warn")
        message == Get(p, "message", "Pattern matched")
    IN  IF action = "block" THEN [allowed |-> FALSE, message |-> message]
        ELSE [allowed |-> TRUE, message |-> message]

RECURSIVE BeforePromptLoop(_, _, _)
BeforePromptLoop(patterns, i, prompt) ==
    IF i > Len(patterns) THEN Outcome(<<[allowed |-> TRUE]>>, << >>, 0, << >>, 0)
    ELSE
    LET p == patterns[i]
        skip == BeforePromptLoop(patterns, i + 1, prompt)
        pattern_regex == Get(p, "pattern", "")
    IN  IF ~IsEnabled(p) THEN skip
        ELSE IF Get(p, "hook", "") \notin {"UserPromptSubmit", "beforeSubmitPrompt"} THEN skip
        ELSE IF pattern_regex = "" THEN skip
        ELSE IF RegexError(pattern_regex) THEN Crash("re.error", << >>)
        ELSE IF ReSearch(pattern_regex, prompt, TRUE)
        THEN Outcome(<<BeforePromptRespond(p)>>, << >>, 0, << >>, i)
        ELSE skip

before_prompt(stdin, gfile, lfile) ==
    IF stdin.kind # "object" THEN Outcome(<<[allowed |-> TRUE]>>, << >>, 0, << >>, 0)
    ELSE BeforePromptLoop(MergedPatterns(gfile, lfile), 1, Get(stdin.data, "prompt", ""))

\* (mutant of PromptCheckerRespond: every match blocks the prompt)
PromptCheckerRespond_BlocksAll(p, i) ==
    Outcome(<< >>, <<Get(p, "message", "Pattern matched")>>, 2, << >>, i)

\* block: the message on stderr and exit code 2; otherwise the message on stdout
PromptCheckerRespond(p, i) ==
    LET action == Get(p, "action", "warn")
        message == Get(p, "message", "Pattern matched")
    IN  IF action = "block" THEN Outcome(<< >>, <<message>>, 2, << >>, i)
        ELSE Outcome(<<message>>, << >>, 0, << >>, i)

RECURSIVE PromptCheckerLoop(_, _, _)
PromptCheckerLoop(patterns, i, prompt) ==
    IF i > Len(patterns) THEN Outcome(<< >>, << >>, 0, << >>, 0)
    ELSE
    LET p == patterns[i]
        skip == PromptCheckerLoop(patterns, i + 1, prompt)
        pattern_regex == Get(p, "pattern", "")
    IN  IF ~IsEnabled(p) THEN skip
        ELSE IF Get(p, "hook", "") # "UserPromptSubmit" THEN skip
        ELSE IF pattern_regex = "" THEN skip
        ELSE IF RegexError(pattern_regex) THEN Crash("re.error", << >>)
        ELSE IF ReSearch(pattern_regex, prompt, TRUE) THEN PromptCheckerRespond(p, i)
        ELSE skip

prompt_checker(stdin, gfile, lfile) ==
    IF stdin.kind # "object" THEN Outcome(<< >>, << >>, 0, << >>, 0)
    ELSE PromptCheckerLoop(MergedPatterns(gfile, lfile), 1, Get(stdin.data, "prompt", ""))

-----------------------------------------------------------------------------
(* os.path and str.format, as the post-event hooks use them *)

basename(path) == SubSeq(path, RFind(path, "/", Len(path)) + 1, Len(path))

AllSlashes(s) == \A i \in 1..Len(s) : Ch(s, i) = "/"

RECURSIVE RStripSlash(_)
RStripSlash(s) ==
    IF s # "" /\ Ch(s, Len(s)) = "/" THEN RStripSlash(SubSeq(s, 1, Len(s) - 1)) ELSE s

dirname(path) ==
    LET head == SubSeq(path, 1, RFind(path, "/", Len(path)))
    IN  IF head # "" /\ ~AllSlashes(head) THEN RStripSlash(head) ELSE head

\* os.path.splitext(path)[1]: from the last dot of the base name, unless
\* only dots precede it there
splitext_ext(path) ==
    LET sep == RFind(path, "/", Len(path))
        dot == RFind(path, ".", Len(path))
    IN  IF dot > sep /\ \E k \in (sep + 1)..(dot - 1) : Ch(path, k) # "."
        THEN SubSeq(path, dot, Len(path))
        ELSE ""

Digits == <<"0", "1", "2", "3", "4", "5", "6", "7", "8", "9">>

RECURSIVE IntStr(_)
IntStr(n) == IF n < 10 THEN Digits[n + 1] ELSE IntStr(n \div 10) \o Digits[(n % 10) + 1]

IsDigits(s) == \A i \in 1..Len(s) : \E d \in 1..10 : Ch(s, i) = Digits[d]

\* the index of the first c in s at or after i, 0 when there is none
RECURSIVE Find(_, _, _)
Find(s, c, i) == IF i > Len(s) THEN 0 ELSE IF Ch(s, i) = c THEN i ELSE Find(s, c, i + 1)

\* template.format(**kw) for plain {name} fields: the text, or the exception
\* the first bad field raises (KeyError carries the name)
RECURSIVE FormatFrom(_, _, _, _)
FormatFrom(t, kw, i, acc) ==
    IF i > Len(t) THEN [status |-> "ok", value |-> acc]
    ELSE LET c == Ch(t, i)
             next == IF i < Len(t) THEN Ch(t, i + 1) ELSE ""
             close == Find(t, "}", i + 1)
             name == SubSeq(t, i + 1, close - 1)
         IN  IF c = "{" /\ next = "{" THEN FormatFrom(t, kw, i + 2, acc \o "{")
             ELSE IF c = "}" /\ next = "}" THEN FormatFrom(t, kw, i + 2, acc \o "}")
             ELSE IF c = "}" THEN [status |-> "ValueError", value |-> ""]
             ELSE IF c # "{" THEN FormatFrom(t, kw, i + 1, acc \o c)
             ELSE IF close = 0 THEN [status |-> "ValueError", value |-> ""]
             ELSE IF IsDigits(name) THEN [status |-> "IndexError", value |-> name]
             ELSE IF name \in DOMAIN kw THEN FormatFrom(t, kw, close + 1, acc \o kw[name])
             ELSE [status |-> "KeyError", value |-> name]

Format(template, kw) == FormatFrom(template, kw, 1, "")

TemplateVars(file_path) ==
    [file_path |-> file_path,
     file_name |-> IF file_path # "" THEN basename(file_path) ELSE "",
     file_dir  |-> IF file_path # "" THEN dirname(file_path) ELSE "",
     file_ext  |-> IF file_path # "" THEN splitext_ext(file_path) ELSE ""]

\* (mutant of LooksFailed: the text is searched as it is, not lowered)
LooksFailed_CaseSensitive(text) == Contains(text, "error") \/ Contains(text, "fail")

\* 'error' in text.lower() or 'fail' in text.lower()
LooksFailed(text) == Contains(Lower(text), "error") \/ Contains(Lower(text), "fail")

\* the child subprocess.run(command, shell=True, timeout=..., cwd=...) starts
ShellRun(command, timeout, cwd, i, env) ==
    [argv |-> <<command>>, shell |-> TRUE, timeout |-> timeout, cwd |-> cwd, by |-> i,
     ended |-> env.cmd.ended]

-----------------------------------------------------------------------------
(* after-shell.py and after-tool.py (observation-only post hooks): emit    *)
(* nothing, may run one command                                            *)

\* re.search(r'>\s*([^\s]+\.py)', command): at the leftmost `>` that works,
\* skip the white space, then the longest run of non-space characters that
\* ends in `.py` after at least one character
RunEnd(s, j) ==
    LET stops == {k \in j..Len(s) : IsSpace(Ch(s, k))}
    IN  IF stops = {} THEN Len(s) ELSE (CHOOSE k \in stops : \A m \in stops : k <= m) - 1

WordStart(s, i) ==
    LET starts == {k \in (i + 1)..(Len(s) + 1) : k > Len(s) \/ ~IsSpace(Ch(s, k))}
    IN  CHOOSE k \in starts : \A m \in starts : k <= m

RedirectEnds(s, i) ==
    {k \in (WordStart(s, i) + 3)..RunEnd(s, WordStart(s, i)) : SubSeq(s, k - 2, k) = ".py"}

RedirectTarget(command) ==
    LET hits == {i \in 1..Len(command) : Ch(command, i) = ">" /\ RedirectEnds(command, i) # {}}
        i == CHOOSE h \in hits : \A m \in hits : h <= m
        k == CHOOSE e \in RedirectEnds(command, i) : \A m \in RedirectEnds(command, i) : e >= m
    IN  IF hits = {} THEN "" ELSE SubSeq(command, WordStart(command, i), k)

\* the part of the loop body the two silent hooks share, after the matcher
\* check: file_pattern, command_on_success, then the run action
RECURSIVE AfterShellLoop(_, _, _, _, _)
RECURSIVE AfterToolLoop(_, _, _, _, _, _)

\* (mutant of SilentBody: no try around subprocess.run, so a command that
\* times out or cannot be started ends the hook with a traceback)
SilentBody_Unguarded(p, i, file_path, output, env, skip) ==
    LET file_pattern_regex == Get(p, "file_pattern", "")
        command_template == Get(p, "command", "")
        made == Format(command_template, TemplateVars(file_path))
        child == ShellRun(made.value, Get(p, "timeout", 30),
                          TemplateVars(file_path).file_dir, i, env)
    IN  IF file_pattern_regex # "" /\ file_path = "" THEN skip
        ELSE IF file_pattern_regex # "" /\ RegexError(file_pattern_regex)
            THEN Crash("re.error", << >>)
        ELSE IF file_pattern_regex # "" /\ ~ReSearch(file_pattern_regex, file_path, FALSE)
            THEN skip
        ELSE IF Get(p, "command_on_success", FALSE) /\ LooksFailed(output) THEN skip
        ELSE IF Get(p, "action", "notify") # "run" THEN skip
        ELSE IF command_template = "" THEN skip
        ELSE IF made.status = "KeyError" THEN skip
        ELSE IF made.status # "ok" THEN Crash(made.status, << >>)
        ELSE IF env.cmd.ended # "exit" THEN Crash(env.cmd.ended, <<child>>)
        ELSE Outcome(<< >>, << >>, 0, <<child>>, i)

SilentBody(p, i, file_path, output, env, skip) ==
    LET file_pattern_regex == Get(p, "file_pattern", "")
        command_template == Get(p, "command", "")
        made == Format(command_template, TemplateVars(file_path))
        timeout == Get(p, "timeout", 30)
    IN  IF file_pattern_regex # "" /\ file_path = "" THEN skip
        ELSE IF file_pattern_regex # "" /\ RegexError(file_pattern_regex)
            THEN Crash("re.error", << >>)
        ELSE IF file_pattern_regex # "" /\ ~ReSearch(file_pattern_regex, file_path, FALSE)
            THEN skip
        ELSE IF Get(p, "command_on_success", FALSE) /\ LooksFailed(output) THEN skip
        ELSE IF Get(p, "action", "notify") # "run" THEN skip
        ELSE IF command_template = "" THEN skip
        ELSE IF made.status = "KeyError" THEN skip
        ELSE IF made.status # "ok" THEN Crash(made.status, << >>)
        ELSE Outcome(<< >>, << >>, 0,
                     <<ShellRun(made.value, timeout, TemplateVars(file_path).file_dir, i, env)>>,
                     i)

AfterShellLoop(patterns, i, file_path, output, env) ==
    IF i > Len(patterns) THEN Outcome(<< >>, << >>, 0, << >>, 0)
    ELSE
    LET p == patterns[i]
        skip == AfterShellLoop(patterns, i + 1, file_path, output, env)
        matcher == Get(p, "matcher", "")
    IN  IF ~IsEnabled(p) THEN skip
        ELSE IF Get(p, "hook", "") \notin {"PostToolUse", "afterShellExecution"} THEN skip
        ELSE IF matcher # "" /\ matcher # "*" /\ ~Contains(matcher, "Bash") THEN skip
        ELSE SilentBody(p, i, file_path, output, env, skip)

after_shell(stdin, gfile, lfile, env) ==
    IF stdin.kind # "object" THEN Outcome(<< >>, << >>, 0, << >>, 0)
    ELSE AfterShellLoop(MergedPatterns(gfile, lfile), 1,
                        RedirectTarget(Get(stdin.data, "command", "")),
                        Get(stdin.data, "output", ""), env)

\* any(m.strip() == tool_name for m in matcher.split('|'))
MatcherHasTool(matcher, tool_name) ==
    \E m \in Split(matcher, "|") : Strip(m) = tool_name

\* tool_input.get('file_path') or tool_input.get('path') or ''
EditedPath(tool_input) ==
    IF Get(tool_input, "file_path", "") # "" THEN tool_input.file_path
    ELSE Get(tool_input, "path", "")

AfterToolLoop(patterns, i, tool_name, file_path, result_json, env) ==
    IF i > Len(patterns) THEN Outcome(<< >>, << >>, 0, << >>, 0)
    ELSE
    LET p == patterns[i]
        skip == AfterToolLoop(patterns, i + 1, tool_name, file_path, result_json, env)
        matcher == Get(p, "matcher", "")
    IN  IF ~IsEnabled(p) THEN skip
        ELSE IF Get(p, "hook", "") \notin {"PostToolUse", "afterMCPExecution"} THEN skip
        ELSE IF matcher # "" /\ matcher # "*" /\ ~MatcherHasTool(matcher, tool_name) THEN skip
        ELSE SilentBody(p, i, file_path, result_json, env, skip)

RECURSIVE ConcatAll(_)
ConcatAll(seqs) == IF seqs = << >> THEN << >> ELSE Head(seqs) \o ConcatAll(Tail(seqs))

\* (mutant of after_tool: the hook does not exit after the first command, so
\* every matching run pattern starts its command)
after_tool_RunsEveryMatch(stdin, gfile, lfile, env) ==
    IF stdin.kind # "object" THEN Outcome(<< >>, << >>, 0, << >>, 0)
    ELSE IF ~IsObject(Get(stdin.data, "tool_input", [x \in {} |-> ""]))
    THEN Crash("AttributeError", << >>)
    ELSE
    LET ps == MergedPatterns(gfile, lfile)
        each == [i \in 1..Len(ps) |->
                    AfterToolLoop(<<ps[i]>>, 1, Get(stdin.data, "tool_name", ""),
                                  EditedPath(stdin.data.tool_input),
                                  Get(stdin.data, "result_json", ""), env)]
        all == ConcatAll([i \in 1..Len(ps) |-> each[i].spawned])
    IN  Outcome(<< >>, << >>, 0, all, IF all = << >> THEN 0 ELSE 1)

\* tool_input.get(...) comes after the try block
after_tool(stdin, gfile, lfile, env) ==
    IF stdin.kind # "object" THEN Outcome(<< >>, << >>, 0, << >>, 0)
    ELSE IF ~IsObject(Get(stdin.data, "tool_input", [x \in {} |-> ""]))
    THEN Crash("AttributeError", << >>)
    ELSE AfterToolLoop(MergedPatterns(gfile, lfile), 1,
                       Get(stdin.data, "tool_name", ""),
                       EditedPath(Get(stdin.data, "tool_input", [x \in {} |-> ""])),
                       Get(stdin.data, "result_json", ""), env)

-----------------------------------------------------------------------------
(* omg-learn-post-tool-handler.py (PostToolUse, continue-with-message) *)

WarnSign == "[warning-sign] "
InfoSign == "[info-sign] "
CheckMark == "[check-mark] "

Continue == [decision |-> "continue"]

\* what the handler prints once subprocess.run has returned `result`
RunReport(p, message, result) ==
    LET output_msg ==
            (CheckMark \o message)
            \o (IF result.stdout # "" THEN "\n\n" \o result.stdout ELSE "")
            \o (IF result.stderr # "" /\ result.returncode # 0
                THEN "\n\nErrors:\n" \o result.stderr ELSE "")
    IN  IF Get(p, "show_output", FALSE)
        THEN [stdout |-> <<[decision |-> "continue", user_message |-> output_msg]>>,
              stderr |-> << >>]
        ELSE IF result.returncode # 0 /\ result.stderr # ""
        THEN [stdout |-> << >>,
              stderr |-> <<[decision |-> "continue",
                            agent_message |-> WarnSign \o message \o " (command failed)\n"
                                                \o result.stderr]>>]
        ELSE [stdout |-> <<Continue>>, stderr |-> << >>]

RECURSIVE PostToolLoop(_, _, _, _, _, _, _)
PostToolLoop(patterns, i, tool_name, file_path, tool_output, env, stderr) ==
    IF i > Len(patterns) THEN Outcome(<<Continue>>, stderr, 0, << >>, 0)
    ELSE
    LET p == patterns[i]
        skip == PostToolLoop(patterns, i + 1, tool_name, file_path, tool_output, env, stderr)
        matcher == Get(p, "matcher", "")
        file_pattern_regex == Get(p, "file_pattern", "")
        action == Get(p, "action", "notify")
        message == Get(p, "message", "Pattern matched")
        command_template == Get(p, "command", "")
        made == Format(command_template, TemplateVars(file_path))
        timeout == Get(p, "timeout", 30)
        child == ShellRun(made.value, timeout, TemplateVars(file_path).file_dir, i, env)
        report == RunReport(p, message, env.cmd)
        template_error ==
            [decision |-> "continue",
             agent_message |-> WarnSign \o "Command template error: '" \o made.value \o "'"]
    IN  IF ~IsEnabled(p) THEN skip
        ELSE IF Get(p, "hook", "") # "PostToolUse" THEN skip
        ELSE IF matcher # "" /\ matcher # "*" /\ ~MatcherHasTool(matcher, tool_name) THEN skip
        ELSE IF file_pattern_regex # "" /\ file_path = "" THEN skip
        ELSE IF file_pattern_regex # "" /\ RegexError(file_pattern_regex)
            THEN Crash("re.error", << >>)
        ELSE IF file_pattern_regex # "" /\ ~ReSearch(file_pattern_regex, file_path, FALSE)
            THEN skip
        ELSE IF Get(p, "command_on_success", FALSE) /\ LooksFailed(tool_output) THEN skip
        ELSE IF action = "run" THEN
            IF command_template = "" THEN skip
            ELSE IF made.status = "KeyError"
            THEN PostToolLoop(patterns, i + 1, tool_name, file_path, tool_output, env,
                              Append(stderr, template_error))
            ELSE IF made.status # "ok" THEN Crash(made.status, << >>)
            ELSE IF env.cmd.ended = "exit"
            THEN Outcome(report.stdout, stderr \o report.stderr, 0, <<child>>, i)
            ELSE IF env.cmd.ended = "timeout"
            THEN Outcome(<< >>,
                         Append(stderr,
                                [decision |-> "continue",
                                 agent_message |-> WarnSign \o "Command timeout ("
                                     \o IntStr(timeout) \o "s): " \o made.value]),
                         0, <<child>>, i)
            ELSE Outcome(<< >>,
                         Append(stderr,
                                [decision |-> "continue",
                                 agent_message |-> WarnSign \o "Command execution failed: "
                                     \o env.cmd.error]),
                         0, <<child>>, i)
        ELSE IF action = "notify"
        THEN Outcome(<<[decision |-> "continue", user_message |-> InfoSign \o message]>>,
                     stderr, 0, << >>, i)
        ELSE IF action = "warn"
        THEN Outcome(<<[decision |-> "continue", agent_message |-> WarnSign \o message]>>,
                     stderr, 0, << >>, i)
        ELSE skip

\* tool_input.get(...) comes after the try block
post_tool_handler(stdin, gfile, lfile, env) ==
    IF stdin.kind # "object" THEN Outcome(<<Continue>>, << >>, 0, << >>, 0)
    ELSE IF ~IsObject(Get(stdin.data, "tool_input", [x \in {} |-> ""]))
    THEN Crash("AttributeError", << >>)
    ELSE PostToolLoop(MergedPatterns(gfile, lfile), 1,
                      Get(stdin.data, "tool_name", ""),
                      EditedPath(Get(stdin.data, "tool_input", [x \in {} |-> ""])),
                      Get(stdin.data, "tool_output", ""), env, << >>)

-----------------------------------------------------------------------------
(* PatternManager.get_pattern and PatternTester.test_pattern *)

\* json_utils.find_pattern: the index of the first pattern with that id, or 0
find_pattern(patterns, pattern_id) ==
    LET hits == {i \in 1..Len(patterns) :
                    "id" \in DOMAIN patterns[i] /\ patterns[i].id = pattern_id}
    IN  IF hits = {} THEN 0 ELSE CHOOSE i \in hits : \A m \in hits : i <= m

\* local first, then global: [found, pattern, scope]
\* pattern['_scope'] = scope; pattern['_file'] = str(file): set on the dict
\* that was read, never written back
Annotated(p, scope, self_platform) ==
    [k \in DOMAIN p \cup {"_scope", "_file"} |->
        IF k = "_scope" THEN scope
        ELSE IF k = "_file"
        THEN (IF scope = "global" THEN "~/." ELSE ".") \o self_platform
                 \o "/omg-learn-patterns.json"
        ELSE p[k]]

\* (mutant of get_pattern: the global store is searched first)
get_pattern_GlobalFirst(pattern_id, gfile, lfile, self_platform) ==
    LET l == find_pattern(read_patterns(lfile), pattern_id)
        g == find_pattern(read_patterns(gfile), pattern_id)
    IN  IF g # 0
        THEN [found |-> TRUE, scope |-> "global",
              pattern |-> Annotated(read_patterns(gfile)[g], "global", self_platform)]
        ELSE IF l # 0
        THEN [found |-> TRUE, scope |-> "local",
              pattern |-> Annotated(read_patterns(lfile)[l], "local", self_platform)]
        ELSE [found |-> FALSE]

get_pattern(pattern_id, gfile, lfile, self_platform) ==
    LET l == find_pattern(read_patterns(lfile), pattern_id)
        g == find_pattern(read_patterns(gfile), pattern_id)
    IN  IF l # 0
        THEN [found |-> TRUE, scope |-> "local",
              pattern |-> Annotated(read_patterns(lfile)[l], "local", self_platform)]
        ELSE IF g # 0
        THEN [found |-> TRUE, scope |-> "global",
              pattern |-> Annotated(read_patterns(gfile)[g], "global", self_platform)]
        ELSE [found |-> FALSE]

Verdict(matched, action, message, spawned) ==
    [matched |-> matched, action |-> action, message |-> message, spawned |-> spawned]

\* the script the tester runs: the path itself, else .<platform>/<path>
test_check_script(pattern, check_script, test_input, self_platform, env) ==
    LET script_path == IF env.script.at = "here" THEN check_script
                       ELSE "." \o self_platform \o "/" \o check_script
        ran == <<[argv |-> <<script_path, test_input>>, ended |-> env.script.run]>>
    IN  IF env.script.at = "none"
        THEN Verdict(FALSE, "", "Check script not found: " \o check_script, << >>)
        ELSE IF env.script.run = "exit1"
        THEN Verdict(TRUE, Get(pattern, "action", "warn"),
                     Get(pattern, "message", "Pattern matched"), ran)
        ELSE IF env.script.run = "exit0"
        THEN Verdict(FALSE, "", "Check script returned 0 (pass)", ran)
        ELSE IF env.script.run = "timeout"
        THEN Verdict(FALSE, "", "Check script timed out (5s)", ran)
        ELSE Verdict(FALSE, "", "Error running check script", ran)

PromptHooks == {"UserPromptSubmit", "beforeSubmitPrompt"}

test_pattern(pattern_id, test_input, tool_name, self_platform, gfile, lfile, env) ==
    LET got == get_pattern(pattern_id, gfile, lfile, self_platform)
        pattern == got.pattern
        hook_type == Get(pattern, "hook", "")
        matcher == Get(pattern, "matcher", "")
        check_script == Get(pattern, "check_script", "")
        pattern_regex == Get(pattern, "pattern", "")
        exclude_pattern == Get(pattern, "exclude_pattern", "")
    IN  IF ~got.found
        THEN Verdict(FALSE, "", "Pattern '" \o pattern_id \o "' not found", << >>)
        ELSE IF ~IsEnabled(pattern)
        THEN Verdict(FALSE, "", "Pattern '" \o pattern_id \o "' is disabled", << >>)
        ELSE IF hook_type \notin ({"PreToolUse", "beforeShellExecution"} \cup PromptHooks)
        THEN Verdict(FALSE, "", "Invalid hook type: " \o hook_type, << >>)
        ELSE IF /\ hook_type \in {"PreToolUse", "beforeShellExecution"}
                /\ matcher # "" /\ matcher # "*" /\ matcher # tool_name
        THEN Verdict(FALSE, "",
                     "Matcher '" \o matcher \o "' does not match tool '" \o tool_name \o "'",
                     << >>)
        ELSE IF check_script # ""
        THEN test_check_script(pattern, check_script, test_input, self_platform, env)
        ELSE IF pattern_regex = ""
        THEN Verdict(FALSE, "", "Pattern has no regex or check script", << >>)
        ELSE IF RegexError(pattern_regex)
        THEN Verdict(FALSE, "", "Invalid regex", << >>)
        ELSE IF ~ReSearch(pattern_regex, test_input, hook_type \in PromptHooks)
        THEN Verdict(FALSE, "", "Input does not match pattern: " \o pattern_regex, << >>)
        ELSE IF exclude_pattern # "" /\ RegexError(exclude_pattern)
        THEN Verdict(FALSE, "", "Invalid regex", << >>)
        ELSE IF exclude_pattern # "" /\ ReSearch(exclude_pattern, test_input, FALSE)
        THEN Verdict(FALSE, "", "Matched exclude_pattern: " \o exclude_pattern, << >>)
        ELSE Verdict(TRUE, Get(pattern, "action", "warn"),
                     Get(pattern, "message", "Pattern matched"), << >>)

-----------------------------------------------------------------------------
(* json.dump and json.load, as far as a store document goes: the text is    *)
(* kept as its sequence of tokens (the white space json.dump puts between   *)
(* them is skipped by json.load), a string token is the escaped text in     *)
(* double quotes                                                            *)

\* the fields json.dump writes as true/false and as digits; the others hold text
BoolFields == {"enabled", "command_on_success", "show_output", "_overrides_global"}
IntFields == {"timeout"}

\* the members of an object are written in the order the dict holds them; a
\* record holds none, so they are written in this one
FieldOrder ==
    <<"id", "enabled", "hook", "matcher", "pattern", "exclude_pattern", "check_script",
      "file_pattern", "command_on_success", "action", "command", "timeout", "show_output",
      "message", "_scope", "_file", "_overrides_global", "version", "patterns">>

\* (mutant of JsonEscape: the text goes between the quotes as it is)
JsonEscape_Raw(s) == s

\* py_encode_basestring_ascii on ASCII text
RECURSIVE JsonEscapeFrom(_, _)
JsonEscapeFrom(s, i) ==
    IF i > Len(s) THEN ""
    ELSE LET c == Ch(s, i)
         IN  (IF c = "\"" THEN "\\\""
              ELSE IF c = "\\" THEN "\\\\"
              ELSE IF c = "\n" THEN "\\n"
              ELSE c) \o JsonEscapeFrom(s, i + 1)

JsonEscape(s) == JsonEscapeFrom(s, 1)

JsonString(s) == "\"" \o JsonEscape(s) \o "\""

DumpScalar(key, v) ==
    IF key \in BoolFields THEN (IF v THEN "true" ELSE "false")
    ELSE IF key \in IntFields THEN IntStr(v)
    ELSE JsonString(v)

RECURSIVE DumpMembers(_, _, _)
DumpMembers(obj, keys, i) ==
    IF i > Len(keys) THEN << >>
    ELSE (IF i > 1 THEN <<",">> ELSE << >>)
         \o <<JsonString(keys[i]), ":", DumpScalar(keys[i], obj[keys[i]])>>
         \o DumpMembers(obj, keys, i + 1)

DumpObject(obj) ==
    <<"{">> \o DumpMembers(obj, SelectSeq(FieldOrder, LAMBDA k : k \in DOMAIN obj), 1)
            \o <<"}">>

RECURSIVE DumpArray(_, _)
DumpArray(ps, i) ==
    IF i > Len(ps) THEN << >>
    ELSE (IF i > 1 THEN <<",">> ELSE << >>) \o DumpObject(ps[i]) \o DumpArray(ps, i + 1)

\* json.dump(data, f, indent=2) of a {version, patterns} dict
JsonDump(data) ==
    <<"{", JsonString("version"), ":", JsonString(data.version), ",",
      JsonString("patterns"), ":", "[">> \o DumpArray(data.patterns, 1) \o <<"]", "}">>

\* the text of a string token: scanstring between the quotes; it stops at the
\* first quote that no backslash escapes
RECURSIVE ScanString(_, _)
ScanString(t, i) ==
    IF i > Len(t) THEN [ok |-> FALSE, value |-> ""]
    ELSE LET c == Ch(t, i)
             e == IF i < Len(t) THEN Ch(t, i + 1) ELSE ""
             rest == ScanString(t, IF c = "\\" THEN i + 2 ELSE i + 1)
         IN  IF c = "\"" THEN [ok |-> i = Len(t), value |-> ""]
             ELSE IF c = "\\" /\ e \notin {"\"", "\\", "n"} THEN [ok |-> FALSE, value |-> ""]
             ELSE [ok |-> rest.ok,
                   value |-> (IF c # "\\" THEN c ELSE IF e = "n" THEN "\n" ELSE e)
                                \o rest.value]

RECURSIVE StrInt(_, _)
StrInt(s, i) ==
    IF i = 0 THEN 0
    ELSE 10 * StrInt(s, i - 1) + ((CHOOSE d \in 1..10 : Digits[d] = Ch(s, i)) - 1)

ParseError == [ok |-> FALSE]

ParseScalar(tok) ==
    IF tok = "true" THEN [ok |-> TRUE, value |-> TRUE]
    ELSE IF tok = "false" THEN [ok |-> TRUE, value |-> FALSE]
    ELSE IF Len(tok) > 0 /\ Ch(tok, 1) = "\"" THEN ScanString(tok, 2)
    ELSE IF Len(tok) > 0 /\ IsDigits(tok) THEN [ok |-> TRUE, value |-> StrInt(tok, Len(tok))]
    ELSE ParseError

\* the members of an object of scalars from token i on, up to its closing brace
RECURSIVE ParseMembers(_, _, _)
ParseMembers(toks, i, acc) ==
    IF i + 2 > Len(toks) THEN ParseError
    ELSE LET key == ParseScalar(toks[i])
             v == ParseScalar(toks[i + 2])
             obj == [k \in DOMAIN acc \cup {key.value} |->
                        IF k = key.value THEN v.value ELSE acc[k]]
         IN  IF ~key.ok \/ toks[i + 1] # ":" \/ ~v.ok \/ i + 3 > Len(toks) THEN ParseError
             ELSE IF toks[i + 3] = "}" THEN [ok |-> TRUE, value |-> obj, next |-> i + 4]
             ELSE IF toks[i + 3] = "," THEN ParseMembers(toks, i + 4, obj)
             ELSE ParseError

ParseObject(toks, i) ==
    IF i + 1 > Len(toks) \/ toks[i] # "{" THEN ParseError
    ELSE IF toks[i + 1] = "}"
    THEN [ok |-> TRUE, value |-> [k \in {} |-> ""], next |-> i + 2]
    ELSE ParseMembers(toks, i + 1, [k \in {} |-> ""])

\* the objects of an array from token i on, up to its closing bracket
RECURSIVE ParseArray(_, _, _)
ParseArray(toks, i, acc) ==
    IF i > Len(toks) THEN ParseError
    ELSE IF toks[i] = "]" /\ acc = << >> THEN [ok |-> TRUE, value |-> acc, next |-> i + 1]
    ELSE LET obj == ParseObject(toks, i)
         IN  IF ~obj.ok \/ obj.next > Len(toks) THEN ParseError
             ELSE IF toks[obj.next] = "]"
             THEN [ok |-> TRUE, value |-> Append(acc, obj.value), next |-> obj.next + 1]
             ELSE IF toks[obj.next] = ","
             THEN ParseArray(toks, obj.next + 1, Append(acc, obj.value))
             ELSE ParseError

\* json.load of a text json.dump wrote for a store document: the file as the
\* readers see it, CorruptFile when the text does not parse
JsonLoad(toks) ==
    LET version == IF Len(toks) >= 4 THEN ParseScalar(toks[4]) ELSE ParseError
        patterns == ParseArray(toks, 9, << >>)
    IN  IF /\ Len(toks) >= 10
           /\ SubSeq(toks, 1, 3) = <<"{", JsonString("version"), ":">>
           /\ SubSeq(toks, 5, 8) = <<",", JsonString("patterns"), ":", "[">>
           /\ version.ok /\ patterns.ok
           /\ patterns.next = Len(toks) /\ toks[Len(toks)] = "}"
        THEN [kind |-> "doc", version |-> version.value, patterns |-> patterns.value]
        ELSE CorruptFile

-----------------------------------------------------------------------------
(* json_utils.py: the functions that change a store file.  Each reads the   *)
(* file, and either gives up (False, nothing written) or hands a document   *)
(* to write_json_file.                                                      *)

EmptyDict == [k \in {} |-> ""]

\* read_json_file: the parsed document, {} for a file that is missing or
\* does not parse
read_json_file(file) ==
    IF file.kind = "doc" THEN [version |-> file.version, patterns |-> file.patterns]
    ELSE EmptyDict

\* where a store path leads, and the name of its file in messages
StorePaths == {"global", "local"}
FileName(path, self_platform) == Annotated(EmptyDict, path, self_platform)._file

GiveUp(message) == [write |-> FALSE, stderr |-> <<message>>]
WriteOut(data) == [write |-> TRUE, data |-> data, stderr |-> << >>]

\* [p.get('id') for p in patterns]; None is written as ""
ExistingIds(patterns) == {Get(patterns[i], "id", "") : i \in 1..Len(patterns)}

\* (mutant of json_add_pattern: the list starts over with the new pattern)
json_add_pattern_StartsOver(file, pattern) ==
    WriteOut([version |-> "1.0", patterns |-> <<pattern>>])

json_add_pattern(file, pattern) ==
    LET data == read_json_file(file)
        version == Get(data, "version", "1.0")
        patterns == Get(data, "patterns", << >>)
        pattern_id == Get(pattern, "id", "")
    IN  IF pattern_id # "" /\ pattern_id \in ExistingIds(patterns)
        THEN GiveUp("Pattern with ID '" \o pattern_id \o "' already exists")
        ELSE WriteOut([version |-> version, patterns |-> Append(patterns, pattern)])

\* pattern.update(updates)
DictUpdate(p, updates) ==
    [k \in DOMAIN p \cup DOMAIN updates |-> IF k \in DOMAIN updates THEN updates[k] ELSE p[k]]

NotFoundIn(pattern_id, name) == "Pattern '" \o pattern_id \o "' not found in " \o name

\* (mutant of json_update_pattern: every pattern with the id is updated and a
\* missing id is written back as a success)
json_update_pattern_Lenient(file, pattern_id, updates, name) ==
    LET patterns == Get(read_json_file(file), "patterns", << >>)
    IN  WriteOut([version |-> Get(read_json_file(file), "version", "1.0"),
                  patterns |-> [i \in 1..Len(patterns) |->
                                   IF Get(patterns[i], "id", "") = pattern_id
                                   THEN DictUpdate(patterns[i], updates)
                                   ELSE patterns[i]]])

\* the first pattern with the id is updated in place
json_update_pattern(file, pattern_id, updates, name) ==
    LET data == read_json_file(file)
        patterns == Get(data, "patterns", << >>)
        at == find_pattern(patterns, pattern_id)
    IN  IF at = 0 THEN GiveUp(NotFoundIn(pattern_id, name))
        ELSE WriteOut([data EXCEPT !.patterns = [patterns EXCEPT ![at] = DictUpdate(@, updates)]])

\* (mutant of json_delete_pattern: the list is cut at the first pattern with
\* the id)
json_delete_pattern_Truncates(file, pattern_id, name) ==
    LET data == read_json_file(file)
        patterns == Get(data, "patterns", << >>)
        at == find_pattern(patterns, pattern_id)
    IN  IF at = 0 THEN GiveUp(NotFoundIn(pattern_id, name))
        ELSE WriteOut([data EXCEPT !.patterns = SubSeq(patterns, 1, at - 1)])

\* every pattern with the id goes
json_delete_pattern(file, pattern_id, name) ==
    LET data == read_json_file(file)
        patterns == Get(data, "patterns", << >>)
        kept == SelectSeq(patterns, LAMBDA p : Get(p, "id", "") # pattern_id)
    IN  IF Len(kept) = Len(patterns) THEN GiveUp(NotFoundIn(pattern_id, name))
        ELSE WriteOut([data EXCEPT !.patterns = kept])

\* (mutant of temp_path: the text is written over the store file itself)
temp_path_InPlace(path) == path

\* path.with_suffix('.tmp')
temp_path(path) == path \o ".tmp"

-----------------------------------------------------------------------------
(* pattern_manager.py: PatternManager picks the store file and calls the    *)
(* json_utils function.  Each method gives the path of the file it chose    *)
(* ("none" when it returned before choosing) and what json_utils decided.   *)

\* an absent scope argument
None == "None"

\* self.global_file if scope == 'global' else self.local_file
ScopeFile(scope) == IF scope = "global" THEN "global" ELSE "local"

FileOf(path, gfile, lfile) == IF path = "global" THEN gfile ELSE lfile

At(path, plan) ==
    [target |-> path, write |-> plan.write, stderr |-> plan.stderr,
     data |-> IF plan.write THEN plan.data ELSE EmptyDict]

\* the `if scope is None` block the four methods share: the scope to use,
\* None when get_pattern found nothing
AutoDetect(pattern_id, scope, gfile, lfile, self_platform) ==
    LET result == get_pattern(pattern_id, gfile, lfile, self_platform)
    IN  IF scope # None THEN scope ELSE IF result.found THEN result.scope ELSE None

NotFound(pattern_id) == At("none", GiveUp("Pattern '" \o pattern_id \o "' not found"))

add_pattern(pattern, scope, gfile, lfile, self_platform) ==
    At(ScopeFile(scope), json_add_pattern(FileOf(ScopeFile(scope), gfile, lfile), pattern))

update_pattern(pattern_id, updates, scope, gfile, lfile, self_platform) ==
    LET found == AutoDetect(pattern_id, scope, gfile, lfile, self_platform)
        path == ScopeFile(found)
    IN  IF found = None THEN NotFound(pattern_id)
        ELSE At(path, json_update_pattern(FileOf(path, gfile, lfile), pattern_id, updates,
                                          FileName(path, self_platform)))

enable_pattern(pattern_id, scope, gfile, lfile, self_platform) ==
    LET found == AutoDetect(pattern_id, scope, gfile, lfile, self_platform)
        path == ScopeFile(found)
    IN  IF found = None THEN NotFound(pattern_id)
        ELSE At(path, json_update_pattern(FileOf(path, gfile, lfile), pattern_id,
                                          [enabled |-> TRUE], FileName(path, self_platform)))

\* (mutant of disable_pattern: the message is blanked along with the flag)
disable_pattern_AndSilences(pattern_id, scope, gfile, lfile, self_platform) ==
    update_pattern(pattern_id, [enabled |-> FALSE, message |-> ""], scope, gfile, lfile,
                   self_platform)

disable_pattern(pattern_id, scope, gfile, lfile, self_platform) ==
    LET found == AutoDetect(pattern_id, scope, gfile, lfile, self_platform)
        path == ScopeFile(found)
    IN  IF found = None THEN NotFound(pattern_id)
        ELSE At(path, json_update_pattern(FileOf(path, gfile, lfile), pattern_id,
                                          [enabled |-> FALSE], FileName(path, self_platform)))

\* response: what the user types at the "Delete pattern ...? (y/n)" prompt
delete_pattern(pattern_id, scope, confirm, response, gfile, lfile, self_platform) ==
    LET found == AutoDetect(pattern_id, scope, gfile, lfile, self_platform)
        path == ScopeFile(found)
    IN  IF found = None THEN NotFound(pattern_id)
        ELSE IF confirm /\ Lower(response) # "y" THEN At(path, GiveUp("Cancelled"))
        ELSE At(path, json_delete_pattern(FileOf(path, gfile, lfile), pattern_id,
                                          FileName(path, self_platform)))

-----------------------------------------------------------------------------
(* The patterns, events and environments the model draws from *)

NoForcePush ==
    [id |-> "no-force-push", hook |-> "PreToolUse", matcher |-> "*",
     pattern |-> "push.*--force", action |-> "block", message |-> "force push blocked"]

\* pre-command patterns matched by regular expression
CommandPool ==
    { NoForcePush,
      [id |-> "no-force-push", hook |-> "beforeShellExecution", pattern |-> "push",
       exclude_pattern |-> "--force", action |-> "warn", message |-> "pushing"],
      [id |-> "git-any", enabled |-> FALSE, hook |-> "PreToolUse", matcher |-> "Bash",
       pattern |-> "git", action |-> "block", message |-> "git is off"],
      [id |-> "git-any", hook |-> "PreToolUse", matcher |-> "Bash", pattern |-> "git",
       action |-> "ask", message |-> "really?"] }

\* a pattern stored without an id beside one that has an id
NamelessPool ==
    { [hook |-> "PreToolUse", pattern |-> "git", action |-> "block",
       message |-> "anonymous"],
      [id |-> "git-named", hook |-> "PreToolUse", matcher |-> "Bash", pattern |-> "git",
       action |-> "warn", message |-> "named"] }

\* predicate scripts and tool matchers
ScriptPool ==
    { [id |-> "scripted", hook |-> "PreToolUse", check_script |-> "check.sh",
       pattern |-> "push", exclude_pattern |-> "--force", action |-> "block",
       message |-> "script says no"],
      [id |-> "bare", hook |-> "PreToolUse", action |-> "block", message |-> "never"],
      [id |-> "editors", hook |-> "PreToolUse", matcher |-> "Write|Edit",
       pattern |-> "p", message |-> "editing"],
      [id |-> "bashx", hook |-> "PreToolUse", matcher |-> "BashX", pattern |-> "git",
       action |-> "block", message |-> "not for Bash"] }

\* prompt patterns
PromptPool ==
    { [id |-> "shout", hook |-> "UserPromptSubmit", pattern |-> "FORCE",
       exclude_pattern |-> "PLEASE", action |-> "block", message |-> "no forcing"],
      [id |-> "shout", hook |-> "beforeSubmitPrompt", pattern |-> "push",
       action |-> "warn", message |-> "pushing?"],
      [id |-> "prompt-script", hook |-> "UserPromptSubmit", check_script |-> "check.sh",
       action |-> "block", message |-> "script says no"],
      [id |-> "quiet", enabled |-> FALSE, hook |-> "UserPromptSubmit", pattern |-> ".",
       action |-> "block", message |-> "off"] }

\* post-event patterns
PostPool ==
    { [id |-> "fmt", hook |-> "PostToolUse", matcher |-> "Write|Edit",
       file_pattern |-> "\\.py$", command_on_success |-> TRUE, action |-> "run",
       command |-> "black {file_path}", message |-> "formatted"],
      [id |-> "note", hook |-> "PostToolUse", action |-> "notify", message |-> "noted"],
      [id |-> "fmt", enabled |-> FALSE, hook |-> "PostToolUse", action |-> "run",
       command |-> "echo off", message |-> "off"],
      [id |-> "bare", hook |-> "afterShellExecution", matcher |-> "BashX", action |-> "run",
       command |-> "echo {file_name}", show_output |-> TRUE, message |-> "ran"] }

\* commands run after any tool, one of them only after a success
SuccessPool ==
    { [id |-> "tidy", hook |-> "PostToolUse", command_on_success |-> TRUE, action |-> "run",
       command |-> "make tidy", message |-> "tidied"],
      [id |-> "again", hook |-> "PostToolUse", action |-> "run", command |-> "make check",
       message |-> "checked"] }

\* actions other than block and warn at the pre-event hook points
AskPool ==
    { [id |-> "ask-script", hook |-> "PreToolUse", check_script |-> "check.sh",
       action |-> "ask", message |-> "script asks"],
      [id |-> "ask-prompt", hook |-> "UserPromptSubmit", pattern |-> "force",
       action |-> "ask", message |-> "sure?"],
      [id |-> "run-cmd", hook |-> "PreToolUse", pattern |-> "push", action |-> "run",
       message |-> "runs"] }

\* patterns whose regular expressions do not compile, ahead of or behind ones
\* that do
BrokenPool ==
    { [id |-> "broken", hook |-> "PreToolUse", pattern |-> "*oops", action |-> "warn",
       message |-> "never"],
      [id |-> "no-push", hook |-> "PreToolUse", pattern |-> "push", action |-> "block",
       message |-> "no push"],
      [id |-> "broken-exclude", hook |-> "UserPromptSubmit", pattern |-> "push",
       exclude_pattern |-> "*", action |-> "block", message |-> "no push talk"] }

\* run actions whose command templates name a field the hooks do not define,
\* or one that is taken from the file path of the event
TemplatePool ==
    { [id |-> "lint", hook |-> "PostToolUse", action |-> "run", command |-> "lint {file}",
       message |-> "linted"],
      [id |-> "stamp", hook |-> "PostToolUse", action |-> "run",
       command |-> "touch {file_name}", message |-> "stamped"] }

\* what the repository is asked to store: one rule under each id, and a
\* pattern that is in the local store from the start
Rule(id) ==
    [id |-> id, enabled |-> TRUE, hook |-> "PreToolUse", pattern |-> "push",
     action |-> "block", message |-> "no \"push\""]

Legacy ==
    [id |-> "legacy", hook |-> "PreToolUse", pattern |-> "\\.force", action |-> "warn",
     timeout |-> 30, message |-> "legacy"]

RepoIds == {"a", "b"}
Scopes == {"global", "local"}
Updates == {[id |-> "b"]}
Responses == {"Y", "n"}

Pools == {CommandPool, NamelessPool, ScriptPool, PromptPool, PostPool, SuccessPool,
          AskPool}

SeqsUpTo(S, n) == UNION {[1..k -> S] : k \in 0..n}

Files(pool, n) == {MissingFile, CorruptFile} \cup {Doc(ps) : ps \in SeqsUpTo(pool, n)}

Platforms == {"claude", "cursor"}

\* stdin that is not JSON, and stdin that is JSON but not an object
Garbage == [kind |-> "garbage"]
NotAnObject == [kind |-> "array"]
Object(data) == [kind |-> "object", data |-> data]

Commands == {"git push --force origin main", "git push origin main"}

Prompts == {"please FORCE push", "may the force be with you"}

ShellEvents == {Garbage, NotAnObject} \cup {Object([command |-> c]) : c \in Commands}

ToolEvents ==
    {Garbage, NotAnObject, Object([tool_name |-> "Edit", tool_input |-> JsonText("oops")])}
    \cup {Object([tool_name |-> "Bash", tool_input |-> [command |-> c]]) : c \in Commands}
    \cup {Object([tool_name |-> "Edit",
                  tool_input |-> [file_path |-> "/a/b/c.py", content |-> "git push"]])}

PromptEvents == {Garbage, NotAnObject} \cup {Object([prompt |-> t]) : t \in Prompts}

AfterShellEvents ==
    { Garbage, NotAnObject,
      Object([command |-> "echo hi > out.py", output |-> "", duration |-> 1]),
      Object([command |-> "git push origin main", output |-> "Error: rejected",
              duration |-> 1]) }

AfterToolEvents ==
    { Garbage, NotAnObject,
      Object([tool_name |-> "Edit", tool_input |-> JsonText("oops"), result_json |-> "ok",
              tool_output |-> "ok"]),
      Object([tool_name |-> "Edit", tool_input |-> [file_path |-> "/a/b/c.py"],
              result_json |-> "ok", tool_output |-> "ok"]),
      Object([tool_name |-> "Bash", tool_input |-> [command |-> "git push origin main"],
              result_json |-> "FAILED", tool_output |-> "FAILED"]) }

ScriptStates ==
    {[at |-> "here", run |-> r] : r \in {"exit0", "exit1", "timeout", "noexec"}}
    \cup {[at |-> "none", run |-> "noexec"], [at |-> "dotdir", run |-> "exit1"]}

CmdResults ==
    { [ended |-> "exit", returncode |-> 0, stdout |-> "done", stderr |-> "", error |-> ""],
      [ended |-> "exit", returncode |-> 1, stdout |-> "", stderr |-> "boom", error |-> ""],
      [ended |-> "timeout", returncode |-> 0, stdout |-> "", stderr |-> "", error |-> ""],
      [ended |-> "spawnfail", returncode |-> 0, stdout |-> "", stderr |-> "",
       error |-> "[Errno 2] No such file or directory"] }

\* the pre-event hooks never run a command, the post-event hooks never a script
PreEnvs == {[script |-> sc, cmd |-> [ended |-> "none"]] : sc \in ScriptStates}
PostEnvs == {[script |-> [at |-> "none", run |-> "noexec"], cmd |-> c] : c \in CmdResults}
NoEnv == [script |-> [at |-> "none", run |-> "noexec"], cmd |-> [ended |-> "none"]]

IdsOf(patterns) == {patterns[i].id : i \in {k \in 1..Len(patterns) : "id" \in DOMAIN patterns[k]}}

StoredIds == IdsOf(read_patterns(globalFile)) \cup IdsOf(read_patterns(localFile))

-----------------------------------------------------------------------------
(* The state machine: any store content within the bounds, then processes  *)
(* run one after the other, each leaving its record in `last`.             *)

Init ==
    /\ platform \in Platforms
    /\ \E pool \in Pools :
           /\ globalFile \in Files(pool, MaxGlobal)
           /\ localFile \in Files(pool, MaxLocal)
    /\ last = [proc |-> "none"]
    /\ tmp = NoTemp
    /\ call = NoCall

\* an environment is drawn only where a stored pattern can consult it: without
\* a check_script no script is looked for, without a run action no command runs
Elems(ps) == {ps[i] : i \in 1..Len(ps)}

Stored == Elems(read_patterns(globalFile)) \cup Elems(read_patterns(localFile))

ScriptEnvs ==
    IF \E p \in Stored : Get(p, "check_script", "") # "" THEN PreEnvs ELSE {NoEnv}

CommandEnvs ==
    IF \E p \in Stored : Get(p, "action", "notify") = "run" THEN PostEnvs ELSE {NoEnv}

\* input that does not parse ends the script before it looks at anything else
ScriptEnvsFor(stdin) == IF stdin.kind = "object" THEN ScriptEnvs ELSE {NoEnv}
CommandEnvsFor(stdin) == IF stdin.kind = "object" THEN CommandEnvs ELSE {NoEnv}

\* test_pattern looks for a script only if the tested pattern names one
TesterEnvs(pattern_id) ==
    LET tested == get_pattern(pattern_id, globalFile, localFile, platform)
    IN  IF tested.found /\ Get(tested.pattern, "check_script", "") # ""
        THEN PreEnvs ELSE {NoEnv}

Ran(proc, stdin, env, out) == [proc |-> proc, stdin |-> stdin, env |-> env, out |-> out]

\* no process is running: the previous one has exited
Idle == last.proc = "none"

BeforeShell ==
    /\ Idle
    /\ platform = "cursor"
    /\ \E stdin \in ShellEvents : \E env \in ScriptEnvsFor(stdin) :
           last' = Ran("before-shell", stdin, env,
                       before_shell(stdin, globalFile, localFile, env))
    /\ UNCHANGED <<platform, globalFile, localFile, tmp, call>>

BeforePrompt ==
    /\ Idle
    /\ platform = "cursor"
    /\ \E stdin \in PromptEvents :
           last' = Ran("before-prompt", stdin, NoEnv,
                       before_prompt(stdin, globalFile, localFile))
    /\ UNCHANGED <<platform, globalFile, localFile, tmp, call>>

AfterShell ==
    /\ Idle
    /\ platform = "cursor"
    /\ \E stdin \in AfterShellEvents : \E env \in CommandEnvsFor(stdin) :
           last' = Ran("after-shell", stdin, env,
                       after_shell(stdin, globalFile, localFile, env))
    /\ UNCHANGED <<platform, globalFile, localFile, tmp, call>>

AfterTool ==
    /\ Idle
    /\ platform = "cursor"
    /\ \E stdin \in AfterToolEvents : \E env \in CommandEnvsFor(stdin) :
           last' = Ran("after-tool", stdin, env,
                       after_tool(stdin, globalFile, localFile, env))
    /\ UNCHANGED <<platform, globalFile, localFile, tmp, call>>

ToolChecker ==
    /\ Idle
    /\ platform = "claude"
    /\ \E stdin \in ToolEvents : \E env \in ScriptEnvsFor(stdin) :
           last' = Ran("tool-checker", stdin, env,
                       tool_checker(stdin, globalFile, localFile, env))
    /\ UNCHANGED <<platform, globalFile, localFile, tmp, call>>

PromptChecker ==
    /\ Idle
    /\ platform = "claude"
    /\ \E stdin \in PromptEvents :
           last' = Ran("prompt-checker", stdin, NoEnv,
                       prompt_checker(stdin, globalFile, localFile))
    /\ UNCHANGED <<platform, globalFile, localFile, tmp, call>>

PostToolHandler ==
    /\ Idle
    /\ platform = "claude"
    /\ \E stdin \in AfterToolEvents : \E env \in CommandEnvsFor(stdin) :
           last' = Ran("post-tool-handler", stdin, env,
                       post_tool_handler(stdin, globalFile, localFile, env))
    /\ UNCHANGED <<platform, globalFile, localFile, tmp, call>>

TestInputs == {"git push --force origin main", "please FORCE push"}

TestPattern ==
    /\ Idle
    /\ \E pattern_id \in StoredIds \cup {"absent"}, test_input \in TestInputs,
          tool_name \in {"Bash", "Edit"} :
         \E env \in TesterEnvs(pattern_id) :
           last' = Ran("test_pattern",
                       [pattern_id |-> pattern_id, test_input |-> test_input,
                        tool_name |-> tool_name],
                       env,
                       test_pattern(pattern_id, test_input, tool_name, platform,
                                    globalFile, localFile, env))
    /\ UNCHANGED <<platform, globalFile, localFile, tmp, call>>

\* the process has written its response and exits
Exit ==
    /\ ~Idle
    /\ last' = [proc |-> "none"]
    /\ UNCHANGED <<platform, globalFile, localFile, tmp, call>>

Next ==
    \/ BeforeShell
    \/ BeforePrompt
    \/ AfterShell
    \/ AfterTool
    \/ ToolChecker
    \/ PromptChecker
    \/ PostToolHandler
    \/ TestPattern
    \/ Exit

Spec == Init /\ [][Next]_vars

\* the same processes over stores that hold regular expressions that do not
\* compile
InitBroken ==
    /\ platform \in Platforms
    /\ globalFile \in Files(BrokenPool, MaxGlobal)
    /\ localFile \in Files(BrokenPool, MaxLocal)
    /\ last = [proc |-> "none"]
    /\ tmp = NoTemp
    /\ call = NoCall

SpecBroken == InitBroken /\ [][Next]_vars

\* the same processes over stores of run actions with command templates
InitTemplate ==
    /\ platform \in Platforms
    /\ globalFile \in Files(TemplatePool, MaxGlobal)
    /\ localFile \in Files(TemplatePool, MaxLocal)
    /\ last = [proc |-> "none"]
    /\ tmp = NoTemp
    /\ call = NoCall

SpecTemplate == InitTemplate /\ [][Next]_vars

-----------------------------------------------------------------------------
(* The repository beside the hooks: one PatternManager call at a time, a    *)
(* call that writes takes two steps (the temporary file is opened, then     *)
(* written, closed and renamed), and hooks run at any point in between.     *)
(* A hook has read both files by the time it is recorded in `last`, so what *)
(* the repository does next cannot reach it: the repository steps are taken *)
(* once it has exited.                                                      *)

OnDisk(path) ==
    IF path = "global" THEN globalFile ELSE IF path = "local" THEN localFile ELSE tmp[path]

\* the files after one step, given what each path then holds
FilesBecome(new(_)) ==
    /\ globalFile' = new("global")
    /\ localFile' = new("local")
    /\ tmp' = [path \in DOMAIN tmp |-> new(path)]

\* what the two store files hold, as a call finds them
Stores == [global |-> globalFile, local |-> localFile]

NoCallRunning == call.pc \in {"none", "returned"}

StoredCount == Len(read_patterns(globalFile)) + Len(read_patterns(localFile))

\* the method has decided: it returns False, or write_json_file has opened
\* the temporary file
Called(req, plan) ==
    LET opened(path) ==
            IF plan.write /\ path = temp_path(plan.target) THEN PartialFile ELSE OnDisk(path)
    IN  /\ Idle
        /\ NoCallRunning
        /\ FilesBecome(opened)
        /\ call' = IF plan.write
                   THEN [pc |-> "writing", req |-> req, target |-> plan.target,
                         before |-> Stores, data |-> plan.data]
                   ELSE [pc |-> "returned", req |-> req, target |-> plan.target,
                         before |-> Stores, result |-> FALSE, stderr |-> plan.stderr]
        /\ UNCHANGED <<platform, last>>

AddPattern ==
    /\ StoredCount < MaxStored
    /\ \E id \in RepoIds, scope \in Scopes :
           Called([op |-> "add", pattern_id |-> id, scope |-> scope],
                  add_pattern(Rule(id), scope, globalFile, localFile, platform))

UpdatePattern ==
    \E id \in RepoIds, updates \in Updates, scope \in Scopes \cup {None} :
        Called([op |-> "update", pattern_id |-> id, updates |-> updates, scope |-> scope],
               update_pattern(id, updates, scope, globalFile, localFile, platform))

EnablePattern ==
    \E id \in RepoIds, scope \in Scopes \cup {None} :
        Called([op |-> "enable", pattern_id |-> id, scope |-> scope],
               enable_pattern(id, scope, globalFile, localFile, platform))

DisablePattern ==
    \E id \in RepoIds, scope \in Scopes \cup {None} :
        Called([op |-> "disable", pattern_id |-> id, scope |-> scope],
               disable_pattern(id, scope, globalFile, localFile, platform))

DeletePattern ==
    \E id \in RepoIds, scope \in Scopes \cup {None}, confirm \in BOOLEAN,
       response \in Responses :
        Called([op |-> "delete", pattern_id |-> id, scope |-> scope],
               delete_pattern(id, scope, confirm, response, globalFile, localFile, platform))

\* json.dump and the newline went into the temporary file, which then
\* replaced the store file
WriteDone ==
    LET written(path) ==
            IF path = call.target THEN JsonLoad(JsonDump(call.data))
            ELSE IF path = temp_path(call.target) THEN MissingFile
            ELSE OnDisk(path)
    IN  /\ Idle
        /\ call.pc = "writing"
        /\ FilesBecome(written)
        /\ call' = [pc |-> "returned", req |-> call.req, target |-> call.target,
                    before |-> call.before, result |-> TRUE, stderr |-> << >>,
                    data |-> call.data]
        /\ UNCHANGED <<platform, last>>

\* writing raised: the temporary file is unlinked
WriteFailed ==
    LET cleaned(path) == IF path = temp_path(call.target) THEN MissingFile ELSE OnDisk(path)
    IN  /\ Idle
        /\ call.pc = "writing"
        /\ FilesBecome(cleaned)
        /\ call' = [pc |-> "returned", req |-> call.req, target |-> call.target,
                    before |-> call.before, result |-> FALSE,
                    stderr |-> <<"Error writing " \o FileName(call.target, platform)>>]
        /\ UNCHANGED <<platform, last>>

NextRepo ==
    \/ AddPattern
    \/ UpdatePattern
    \/ EnablePattern
    \/ DisablePattern
    \/ DeletePattern
    \/ WriteDone
    \/ WriteFailed
    \/ ToolChecker
    \/ Exit

\* PatternManager('claude') and the Claude tool checker share the two files
InitRepo ==
    /\ platform = "claude"
    /\ globalFile \in {MissingFile, Doc(<<Rule("a")>>)}
    /\ localFile \in {MissingFile, CorruptFile, Doc(<<Legacy>>)}
    /\ last = [proc |-> "none"]
    /\ tmp = NoTemp
    /\ call = NoCall

SpecRepo == InitRepo /\ [][NextRepo]_vars

-----------------------------------------------------------------------------
(* What the properties below read off a state *)

PreHooks == {"before-shell", "before-prompt", "tool-checker", "prompt-checker"}
PostHooks == {"after-shell", "after-tool", "post-tool-handler"}
Hooks == PreHooks \cup PostHooks

\* the hook script named proc, run on the given input, store files and environment
RunHook(proc, stdin, gfile, lfile, env) ==
    CASE proc = "before-shell" -> before_shell(stdin, gfile, lfile, env)
      [] proc = "before-prompt" -> before_prompt(stdin, gfile, lfile)
      [] proc = "tool-checker" -> tool_checker(stdin, gfile, lfile, env)
      [] proc = "prompt-checker" -> prompt_checker(stdin, gfile, lfile)
      [] proc = "after-shell" -> after_shell(stdin, gfile, lfile, env)
      [] proc = "after-tool" -> after_tool(stdin, gfile, lfile, env)
      [] proc = "post-tool-handler" -> post_tool_handler(stdin, gfile, lfile, env)

\* what the host sees of a process
Emitted(out) == [stdout |-> out.stdout, stderr |-> out.stderr, exit |-> out.exit]

\* the list the hooks of this state walk
Merged == MergedPatterns(globalFile, localFile)

HookRan == last.proc \in Hooks /\ last.stdin.kind = "object"

\* the last hook, had pattern p been the only one stored
Alone(p) == RunHook(last.proc, last.stdin, Doc(<<p>>), MissingFile, last.env)

\* the positions of the walked list whose pattern, stored alone, acts on the event
Hits == {i \in 1..Len(Merged) : Alone(Merged[i]).fired # 0}

Least(S) == CHOOSE i \in S : \A j \in S : i <= j

GlobalIds == IdsOf(load_patterns(globalFile))
LocalIds == IdsOf(load_patterns(localFile))

-----------------------------------------------------------------------------
(* C1: whatever the two store files hold, the merged list (the hooks' and   *)
(* merge_patterns') holds at most one pattern per id, and for an id that    *)
(* both stores hold it is a local pattern, not the global one.              *)

MergedViewOk(merged) ==
    LET locals == Elems(load_patterns(localFile))
        globals == Elems(load_patterns(globalFile))
        localIds == LocalIds
    IN  /\ \A i, j \in 1..Len(merged) : merged[i].id = merged[j].id => i = j
        /\ \A i \in 1..Len(merged) :
               merged[i].id \in localIds =>
                   /\ merged[i] \in locals
                   /\ \A g \in globals :
                          ("id" \in DOMAIN g /\ g.id = merged[i].id /\ g # merged[i])
                              => g \notin Elems(merged)

C1_MergedViewLocalWins ==
    /\ MergedViewOk(MergedPatterns(globalFile, localFile))
    /\ MergedViewOk(merge_patterns(globalFile, localFile))

\* a hook has acted on a local pattern that overrides a different global one
C1_Witness ==
    /\ HookRan
    /\ last.out.fired # 0
    /\ Merged[last.out.fired].id \in LocalIds \cap GlobalIds
    /\ \E g \in Elems(load_patterns(globalFile)) :
           "id" \in DOMAIN g /\ g.id = Merged[last.out.fired].id /\ g # Merged[last.out.fired]

-----------------------------------------------------------------------------
(* C2: in the four pre-event hooks, when two or more patterns of the walked *)
(* list each match the event, the response is the one the first of them     *)
(* gives alone; the later ones have no effect.                              *)

-----------------------------------------------------------------------------
(* C3: in a hook invocation, when a pattern only the local store holds and  *)
(* a pattern only the global store holds both match the event, the local    *)
(* one is the first match and decides.                                      *)

C3_LocalBeforeGlobal ==
    (/\ HookRan
     /\ \E i \in Hits : Merged[i].id \in LocalIds \ GlobalIds
     /\ \E j \in Hits : Merged[j].id \in GlobalIds \ LocalIds)
        => /\ last.out.fired # 0
           /\ Merged[last.out.fired].id \in LocalIds

-----------------------------------------------------------------------------
(* C4: a pattern with enabled = false is never treated as matched: no hook  *)
(* acts on it or starts a child for it, every hook answers as if the        *)
(* disabled patterns were not in the walked list, and test_pattern reports  *)
(* no match for it and runs nothing.                                        *)

EnabledOnly(patterns) == SelectSeq(patterns, LAMBDA p : Get(p, "enabled", TRUE))

Tested == get_pattern(last.stdin.pattern_id, globalFile, localFile, platform)

C4_DisabledNeverMatches ==
    /\ HookRan =>
           /\ last.out.fired # 0 => Get(Merged[last.out.fired], "enabled", TRUE)
           /\ \A k \in 1..Len(last.out.spawned) :
                  Get(Merged[last.out.spawned[k].by], "enabled", TRUE)
           /\ EnabledOnly(Merged) # Merged =>
                  Emitted(last.out)
                      = Emitted(RunHook(last.proc, last.stdin, Doc(EnabledOnly(Merged)),
                                        MissingFile, last.env))
    /\ (last.proc = "test_pattern" /\ Tested.found /\ ~Get(Tested.pattern, "enabled", TRUE))
           => ~last.out.matched /\ last.out.action = "" /\ last.out.spawned = << >>

\* the disabled pattern, were it enabled, would have acted on the event
WouldFire(p) == Alone([k \in DOMAIN p \ {"enabled"} |-> p[k]]).fired # 0

C4_Witness ==
    /\ HookRan
    /\ last.out.fired = 0
    /\ \E i \in 1..Len(Merged) :
           ~Get(Merged[i], "enabled", TRUE) /\ WouldFire(Merged[i])

-----------------------------------------------------------------------------
(* C5: with no-force-push the single stored pattern, the pre-command hook   *)
(* blocks `git push --force origin main` with exactly the pattern's message *)
(* and answers `git push origin main` with the plain allow response.        *)

OnlyNoForcePush ==
    /\ Merged = <<NoForcePush>>
    /\ Len(load_patterns(globalFile)) + Len(load_patterns(localFile)) = 1

Blocked(proc, message) ==
    IF proc = "before-shell" THEN <<[allowed |-> FALSE, message |-> message]>>
    ELSE <<[permission |-> "deny", user_message |-> message]>>

PlainAllow(proc) ==
    IF proc = "before-shell" THEN <<[allowed |-> TRUE]>> ELSE <<[permission |-> "allow"]>>

CommandOf(stdin) ==
    IF "command" \in DOMAIN stdin.data THEN stdin.data.command
    ELSE stdin.data.tool_input.command

PreCommandRan(command) ==
    /\ HookRan
    /\ last.proc \in {"before-shell", "tool-checker"}
    /\ last.proc = "tool-checker" => last.stdin.data.tool_name = "Bash"
    /\ CommandOf(last.stdin) = command

C5_NoForcePushScenario ==
    OnlyNoForcePush =>
        /\ PreCommandRan("git push --force origin main")
               => /\ last.out.stdout = Blocked(last.proc, "force push blocked")
                  /\ last.out.stderr = << >> /\ last.out.exit = 0
        /\ PreCommandRan("git push origin main")
               => /\ last.out.stdout = PlainAllow(last.proc)
                  /\ last.out.stderr = << >> /\ last.out.exit = 0

C5_Witness ==
    /\ OnlyNoForcePush
    /\ PreCommandRan("git push --force origin main")
    /\ last.out.stdout = Blocked(last.proc, "force push blocked")

-----------------------------------------------------------------------------
(* The pattern the last process acted on, and the text it was matched with *)

\* a sequence of at most one pattern: the one the hook fired, or the one
\* test_pattern reported as matched
Acted ==
    IF last.proc = "test_pattern"
    THEN IF last.out.matched THEN <<Tested.pattern>> ELSE << >>
    ELSE IF HookRan /\ last.out.fired # 0 THEN <<Merged[last.out.fired]>> ELSE << >>

\* the event's primary text
PrimaryInput ==
    CASE last.proc = "test_pattern" -> last.stdin.test_input
      [] last.proc \in {"before-shell", "after-shell"} -> Get(last.stdin.data, "command", "")
      [] last.proc \in {"before-prompt", "prompt-checker"} -> Get(last.stdin.data, "prompt", "")
      [] OTHER -> PrimaryText(Get(last.stdin.data, "tool_input", [x \in {} |-> ""]))

\* the case rule of the hook point: prompts are matched without regard to case
CaseBlind(p) ==
    IF last.proc = "test_pattern" THEN Get(p, "hook", "") \in PromptHooks
    ELSE last.proc \in {"before-prompt", "prompt-checker"}

RegexHit(regex, p) == regex # "" /\ ~RegexError(regex) /\ ReSearch(regex, PrimaryInput, CaseBlind(p))

-----------------------------------------------------------------------------
(* C6: at every hook point that evaluates regular expressions (the four     *)
(* pre-event hooks and test_pattern), a pattern whose `pattern` and         *)
(* `exclude_pattern` both match the event text under the hook point's case  *)
(* rule is not treated as matched.                                          *)

C6_ExcludedNeverMatches ==
    (last.proc \in PreHooks \cup {"test_pattern"}) =>
        \A k \in 1..Len(Acted) :
            Get(Acted[k], "check_script", "") = "" =>
                ~(/\ RegexHit(Get(Acted[k], "pattern", ""), Acted[k])
                  /\ RegexHit(Get(Acted[k], "exclude_pattern", ""), Acted[k]))

-----------------------------------------------------------------------------
(* C7: in the pre-event hooks and in test_pattern, a pattern with a         *)
(* check_script matches when the script exits non-zero and only then: not   *)
(* when it exits 0, runs past 5 seconds or cannot be started.               *)

ScriptSaidMatch ==
    /\ last.env.script.run = "exit1"
    /\ \/ last.env.script.at = "here"
       \/ last.proc = "test_pattern" /\ last.env.script.at = "dotdir"

C7_ScriptDecides ==
    /\ (last.proc \in PreHooks \cup {"test_pattern"}) =>
           \A k \in 1..Len(Acted) :
               Get(Acted[k], "check_script", "") # "" => ScriptSaidMatch
    /\ (/\ HookRan /\ last.proc \in PreHooks
        /\ Len(Merged) = 1
        /\ Get(Merged[1], "check_script", "") # ""
        /\ Get(Merged[1], "enabled", TRUE)
        /\ Get(Merged[1], "hook", "") \in {"PreToolUse", "UserPromptSubmit"}
        /\ (Get(Merged[1], "hook", "") = "PreToolUse")
               = (last.proc \in {"before-shell", "tool-checker"})
        /\ Get(Merged[1], "matcher", "") \in {"", "*"}
        /\ ScriptSaidMatch)
           => last.out.fired = 1

-----------------------------------------------------------------------------
(* C8: at every hook point, pre and post, a pattern without check_script    *)
(* fires only if it has a `pattern` and that regex matches the event's      *)
(* primary text; a pattern with neither never fires.                        *)

FiredByRegexOnly ==
    \A k \in 1..Len(Acted) :
        Get(Acted[k], "check_script", "") = ""
            => RegexHit(Get(Acted[k], "pattern", ""), Acted[k])

C8_NeedsPatternEverywhere ==
    (last.proc \in Hooks \cup {"test_pattern"}) => FiredByRegexOnly

-----------------------------------------------------------------------------
(* C9: in a pre-event hook the outcome for a pattern with a check_script    *)
(* does not depend on its `pattern` and `exclude_pattern`: the hook answers *)
(* as it would with those two fields removed from every such pattern.       *)

WithoutRegex(p) ==
    IF Get(p, "check_script", "") # ""
    THEN [k \in DOMAIN p \ {"pattern", "exclude_pattern"} |-> p[k]]
    ELSE p

C9_ScriptIgnoresRegex ==
    (HookRan /\ last.proc \in PreHooks) =>
        Emitted(last.out)
            = Emitted(RunHook(last.proc, last.stdin,
                              Doc([i \in 1..Len(Merged) |-> WithoutRegex(Merged[i])]),
                              MissingFile, last.env))

-----------------------------------------------------------------------------
(* C10: at every tool-scoped hook point a pattern passes the tool filter    *)
(* exactly when its matcher is `*`, empty, or has the event's tool name as  *)
(* one of its `|`-separated members.                                        *)

MatcherAdmits(matcher, tool) == matcher \in {"", "*"} \/ tool \in Split(matcher, "|")

\* the tool of the event: the shell hooks are only ever called for Bash
EventTool ==
    CASE last.proc = "test_pattern" -> last.stdin.tool_name
      [] last.proc \in {"before-shell", "after-shell"} -> "Bash"
      [] OTHER -> Get(last.stdin.data, "tool_name", "")

ToolScoped(p) ==
    \/ last.proc \in Hooks \ {"before-prompt", "prompt-checker"}
    \/ last.proc = "test_pattern" /\ Get(p, "hook", "") \notin PromptHooks

AnyTool(p) == [k \in DOMAIN p \cup {"matcher"} |-> IF k = "matcher" THEN "*" ELSE p[k]]

C10_MatcherByMember ==
    /\ (last.proc \in Hooks \cup {"test_pattern"}) =>
           \A k \in 1..Len(Acted) :
               ToolScoped(Acted[k]) => MatcherAdmits(Get(Acted[k], "matcher", ""), EventTool)
    /\ (HookRan /\ last.proc \in Hooks \ {"before-prompt", "prompt-checker"}) =>
           \A i \in 1..Len(Merged) :
               (/\ MatcherAdmits(Get(Merged[i], "matcher", ""), EventTool)
                /\ Alone(AnyTool(Merged[i])).fired # 0)
                   => Alone(Merged[i]).fired # 0

-----------------------------------------------------------------------------
(* C11: every hook accepts both dialect spellings of its own hook point as  *)
(* one value: it answers as it would had every pattern stored under either  *)
(* spelling been stored under the other.                                    *)

\* the two dialects' names of the hook point a hook script serves
OwnSpellings(proc) ==
    CASE proc \in {"before-shell", "tool-checker"} -> {"PreToolUse", "beforeShellExecution"}
      [] proc \in {"before-prompt", "prompt-checker"} -> {"UserPromptSubmit", "beforeSubmitPrompt"}
      [] proc = "after-shell" -> {"PostToolUse", "afterShellExecution"}
      [] proc = "after-tool" -> {"PostToolUse", "afterMCPExecution"}
      [] OTHER -> {"PostToolUse", "afterShellExecution", "afterMCPExecution"}

Respelled(proc, p, name) ==
    IF Get(p, "hook", "") \in OwnSpellings(proc) THEN [p EXCEPT !.hook = name] ELSE p

C11_DialectSynonyms ==
    HookRan =>
        \A name \in OwnSpellings(last.proc) :
            Emitted(last.out)
                = Emitted(RunHook(last.proc, last.stdin,
                                  Doc([i \in 1..Len(Merged) |->
                                          Respelled(last.proc, Merged[i], name)]),
                                  MissingFile, last.env))

-----------------------------------------------------------------------------
(* C12: in the post-event hooks a pattern with command_on_success set does  *)
(* not match (no message, no command) when the event's captured output      *)
(* holds "error" or "fail" in any letter case; when the output holds        *)
(* neither, command_on_success changes nothing.                             *)

\* the captured output the post-event hook reads
PostOutput ==
    CASE last.proc = "after-shell" -> Get(last.stdin.data, "output", "")
      [] last.proc = "after-tool" -> Get(last.stdin.data, "result_json", "")
      [] OTHER -> Get(last.stdin.data, "tool_output", "")

SawFailure(text) ==
    \E i \in 1..Len(text), n \in {4, 5} :
        /\ i + n - 1 <= Len(text)
        /\ Lower(SubSeq(text, i, i + n - 1)) \in {"error", "fail"}

SuccessOnly(p) == Get(p, "command_on_success", FALSE)

AnyOutcome(p) == [k \in DOMAIN p \ {"command_on_success"} |-> p[k]]

C12_SuccessOnly ==
    (HookRan /\ last.proc \in PostHooks) =>
        IF SawFailure(PostOutput)
        THEN /\ \A i \in 1..Len(Merged) :
                    SuccessOnly(Merged[i]) =>
                        /\ last.out.fired # i
                        /\ \A k \in 1..Len(last.out.spawned) : last.out.spawned[k].by # i
             /\ Emitted(last.out)
                    = Emitted(RunHook(last.proc, last.stdin,
                                      Doc(SelectSeq(Merged, LAMBDA p : ~SuccessOnly(p))),
                                      MissingFile, last.env))
        ELSE Emitted(last.out)
                 = Emitted(RunHook(last.proc, last.stdin,
                                   Doc([i \in 1..Len(Merged) |-> AnyOutcome(Merged[i])]),
                                   MissingFile, last.env))

\* a success-only pattern that would have run its command saw a failure
C12_Witness ==
    /\ HookRan
    /\ last.proc \in PostHooks
    /\ SawFailure(PostOutput)
    /\ \E i \in 1..Len(Merged) :
           /\ SuccessOnly(Merged[i])
           /\ Alone(AnyOutcome(Merged[i])).spawned # << >>
           /\ last.out.fired # i

-----------------------------------------------------------------------------
(* C13: a pre-event hook emits a blocking response exactly when the pattern *)
(* it acted on has action `block`: allowed=false (gating dialect),          *)
(* permission=deny (richer dialect), exit code 2 with the message on stderr *)
(* only (prompt exit-code dialect). For every other action, and when no     *)
(* pattern matched, the response allows the event.                          *)

Gating == {"before-shell", "before-prompt"}

IsBlocking(proc, out) ==
    CASE proc \in Gating -> \E k \in 1..Len(out.stdout) : ~out.stdout[k].allowed
      [] proc = "tool-checker" ->
            \E k \in 1..Len(out.stdout) : out.stdout[k].permission = "deny"
      [] OTHER -> out.exit = 2

IsAllowing(proc, out) ==
    /\ out.exit = 0
    /\ CASE proc \in Gating -> Len(out.stdout) = 1 /\ out.stdout[1].allowed
         [] proc = "tool-checker" ->
               Len(out.stdout) = 1 /\ out.stdout[1].permission \in {"allow", "ask"}
         [] OTHER -> out.stderr = << >>

\* the action of the pattern the hook acted on, "" when it acted on none
FiredAction ==
    IF HookRan /\ last.out.fired # 0 THEN Get(Merged[last.out.fired], "action", "warn") ELSE ""

FiredMessage == Get(Merged[last.out.fired], "message", "Pattern matched")

-----------------------------------------------------------------------------
(* C14: in the richer dialect (omg-learn-tool-checker) a first match with   *)
(* action `ask` yields permission "ask" with the pattern's message as       *)
(* user_message, on the regex path and on the check_script path; in the     *)
(* gating dialect the same action yields allowed=true with a message.       *)

-----------------------------------------------------------------------------
(* C15: whatever stdin holds (text that is not JSON, JSON that is not an    *)
(* object, an object whose tool_input is not an object) every hook exits 0  *)
(* with its default allow/continue response, or silently where that is its  *)
(* default: never an uncaught exception, never a blocking response.         *)

Malformed(stdin) ==
    \/ stdin.kind # "object"
    \/ "tool_input" \in DOMAIN stdin.data /\ ~IsObject(stdin.data.tool_input)

DefaultResponse(proc) ==
    CASE proc \in Gating -> <<[allowed |-> TRUE]>>
      [] proc = "tool-checker" -> <<[permission |-> "allow"]>>
      [] proc = "post-tool-handler" -> <<[decision |-> "continue"]>>
      [] OTHER -> << >>

C15_FailOpen ==
    (last.proc \in Hooks /\ Malformed(last.stdin)) =>
        Emitted(last.out) = [stdout |-> DefaultResponse(last.proc), stderr |-> << >>, exit |-> 0]

-----------------------------------------------------------------------------
(* C16: a pattern store file that is missing or does not parse counts as an *)
(* empty collection and the hook still decides with the other scope's       *)
(* patterns; with both files missing or unparsable every hook gives its     *)
(* default allow/continue response and exits 0.                             *)

Unreadable(file) == file.kind # "doc"

AsEmpty(file) == IF Unreadable(file) THEN Doc(<< >>) ELSE file

C16_UnreadableStoreIsEmpty ==
    (HookRan /\ ~Malformed(last.stdin)) =>
        /\ (Unreadable(globalFile) \/ Unreadable(localFile)) =>
               last.out = RunHook(last.proc, last.stdin, AsEmpty(globalFile),
                                  AsEmpty(localFile), last.env)
        /\ (Unreadable(globalFile) /\ ~Unreadable(localFile)) =>
               Merged = DictPutAll(<< >>, localFile.patterns, 1)
        /\ (~Unreadable(globalFile) /\ Unreadable(localFile)) =>
               Merged = DictPutAll(<< >>, globalFile.patterns, 1)
        /\ (Unreadable(globalFile) /\ Unreadable(localFile)) =>
               Emitted(last.out) = [stdout |-> DefaultResponse(last.proc),
                                    stderr |-> << >>, exit |-> 0]

\* with one store unreadable a pattern of the other scope decided
C16_Witness ==
    /\ HookRan
    /\ Unreadable(globalFile) # Unreadable(localFile)
    /\ last.out.fired # 0

-----------------------------------------------------------------------------
(* C17: a pattern whose `pattern` or `exclude_pattern` is not a valid       *)
(* regular expression, or whose check_script is missing, counts as not      *)
(* matching, for that pattern alone: the pre-event hook goes on to the      *)
(* following patterns, answers as if the pattern were not stored and exits  *)
(* normally; test_pattern reports no match.                                 *)

CannotEvaluate(p, env) ==
    \/ Get(p, "pattern", "") # "" /\ RegexError(p.pattern)
    \/ Get(p, "exclude_pattern", "") # "" /\ RegexError(p.exclude_pattern)
    \/ Get(p, "check_script", "") # "" /\ env.script.at = "none"

C17_MatchingErrorsSkipPattern ==
    /\ (HookRan /\ last.proc \in PreHooks) =>
           /\ last.out.exit # 1
           /\ Emitted(last.out)
                  = Emitted(RunHook(last.proc, last.stdin,
                                    Doc(SelectSeq(Merged,
                                                  LAMBDA p : ~CannotEvaluate(p, last.env))),
                                    MissingFile, last.env))
    /\ (last.proc = "test_pattern" /\ Tested.found
            /\ CannotEvaluate(Tested.pattern, last.env))
           => ~last.out.matched

-----------------------------------------------------------------------------
(* C18: in the post-event hooks, when the run command times out, cannot be  *)
(* started or raises, the hook still exits 0 and every response it emits    *)
(* carries decision "continue": never a blocking response, never a non-zero *)
(* exit.                                                                    *)

CommandFailedToRun ==
    \E k \in 1..Len(last.out.spawned) : last.out.spawned[k].ended # "exit"

C18_RunErrorsNeverBlock ==
    (HookRan /\ last.proc \in PostHooks /\ CommandFailedToRun) =>
        /\ last.out.exit = 0
        /\ \A k \in 1..Len(last.out.stdout) :
               Get(last.out.stdout[k], "decision", "") = "continue"
        /\ \A k \in 1..Len(last.out.stderr) :
               Get(last.out.stderr[k], "decision", "") = "continue"

\* the handler reported a command that timed out and let the event continue
C18_Witness ==
    /\ HookRan
    /\ last.proc = "post-tool-handler"
    /\ last.out.spawned # << >>
    /\ last.out.spawned[1].ended = "timeout"
    /\ last.out.stderr # << >>
    /\ last.out.exit = 0

-----------------------------------------------------------------------------
(* C19: one post-event hook invocation starts at most one run-action        *)
(* command: once the first command has been started, however it ends, no    *)
(* later pattern is evaluated and no second command runs.                   *)

C19_OneCommandPerEvent ==
    (HookRan /\ last.proc \in PostHooks) =>
        /\ Len(last.out.spawned) <= 1
        /\ last.out.spawned # << >> =>
               last.out = RunHook(last.proc, last.stdin,
                                  Doc(SubSeq(Merged, 1, last.out.spawned[1].by)),
                                  MissingFile, last.env)

\* a command was started although a later pattern would have started one too
C19_Witness ==
    /\ HookRan
    /\ last.proc \in PostHooks
    /\ Len(last.out.spawned) = 1
    /\ \E j \in (last.out.spawned[1].by + 1)..Len(Merged) :
           Alone(Merged[j]).spawned # << >>

-----------------------------------------------------------------------------
(* C20: in the post-event hooks, once a pattern satisfies all of its match  *)
(* conditions no later pattern of the list is evaluated or acted on,        *)
(* whatever the matched pattern's action is and whether or not the action   *)
(* could be carried out.                                                    *)

\* p with an action every post-event hook can carry out: the hook starts the
\* command exactly when p passes all of the hook's match conditions
Runnable(p) ==
    [k \in DOMAIN p \cup {"action", "command"} |->
        IF k = "action" THEN "run" ELSE IF k = "command" THEN "true" ELSE p[k]]

\* an environment in which that command runs and exits 0
Obliging ==
    [script |-> [at |-> "none", run |-> "noexec"],
     cmd |-> [ended |-> "exit", returncode |-> 0, stdout |-> "", stderr |-> "", error |-> ""]]

PostMatches ==
    {i \in 1..Len(Merged) :
        RunHook(last.proc, last.stdin, Doc(<<Runnable(Merged[i])>>), MissingFile,
                Obliging).spawned # << >>}

C20_NothingAfterFirstMatch ==
    (HookRan /\ ~Malformed(last.stdin) /\ last.proc \in PostHooks /\ PostMatches # {}) =>
        /\ last.out.fired \in {0, Least(PostMatches)}
        /\ \A k \in 1..Len(last.out.spawned) : last.out.spawned[k].by = Least(PostMatches)
        /\ Emitted(last.out)
               = Emitted(RunHook(last.proc, last.stdin,
                                 Doc(SubSeq(Merged, 1, Least(PostMatches))),
                                 MissingFile, last.env))

-----------------------------------------------------------------------------
(* C21: in the post-event hooks, when the first pattern that passes all the *)
(* match conditions is a run pattern whose command template names a field   *)
(* other than file_path, file_name, file_dir and file_ext, the invocation   *)
(* ends without having started any child process.                           *)

\* the file path the hook derives from the event
EventPath ==
    IF last.proc = "after-shell" THEN RedirectTarget(Get(last.stdin.data, "command", ""))
    ELSE EditedPath(Get(last.stdin.data, "tool_input", [x \in {} |-> ""]))

FileFields == {"file_path", "file_name", "file_dir", "file_ext"}

\* the first field the template of run pattern p names, "" when it names none
FirstField(p) ==
    LET made == Format(Get(p, "command", ""), [x \in {} |-> ""])
    IN  IF Get(p, "action", "notify") = "run" /\ made.status = "KeyError"
        THEN made.value ELSE ""

\* the template of run pattern p names a field the hooks do not pass to format
UndefinedField(p) ==
    /\ Get(p, "action", "notify") = "run"
    /\ Format(Get(p, "command", ""), TemplateVars(EventPath)).status = "KeyError"

PostHookMatched ==
    HookRan /\ ~Malformed(last.stdin) /\ last.proc \in PostHooks /\ PostMatches # {}

C21_UndefinedFieldSpawnsNothing ==
    (PostHookMatched /\ UndefinedField(Merged[Least(PostMatches)]))
        => last.out.spawned = << >>

-----------------------------------------------------------------------------
(* C22: in the post-event hooks, when the event gives no file path and the  *)
(* first pattern that passes all the match conditions is a run pattern      *)
(* whose command template names one of the four file fields, no command is  *)
(* started, not even one with the fields replaced by the empty string.      *)

C22_NoPathIsTemplateError ==
    (PostHookMatched /\ EventPath = ""
        /\ FirstField(Merged[Least(PostMatches)]) \in FileFields)
        => last.out.spawned = << >>

-----------------------------------------------------------------------------
(* C23: while a repository write to a store file is in progress, the store  *)
(* file holds the complete document from before the write, and once the     *)
(* write has returned True it holds the complete document that was written: *)
(* at no point does a store file hold a partially written document, so a    *)
(* hook that reads it then never sees one.                                  *)

\* the store file a readable document leaves
AsFile(data) == [kind |-> "doc", version |-> data.version, patterns |-> data.patterns]

C23_NoPartialDocument ==
    /\ globalFile.kind # "partial" /\ localFile.kind # "partial"
    /\ call.pc = "writing" => OnDisk(call.target) = call.before[call.target]
    /\ (call.pc = "returned" /\ call.result) => OnDisk(call.target) = AsFile(call.data)

\* a hook ran while the temporary file was half written, and decided on a
\* pattern of the store file that is being replaced
C23_Witness ==
    /\ call.pc = "writing"
    /\ tmp[temp_path(call.target)] = PartialFile
    /\ HookRan
    /\ last.out.fired # 0
    /\ Merged[last.out.fired] \in Elems(load_patterns(call.before[call.target]))
    /\ call.before[call.target] # AsFile(call.data)

-----------------------------------------------------------------------------
\* a call of the given operations has returned with the given result
Returned(ops, result) ==
    /\ call.pc = "returned"
    /\ call.req.op \in ops
    /\ call.result = result

\* C24: an add of a new id to the local store that starts after the previous
\* call has returned leaves a well-formed {version, patterns} document that
\* holds every pattern the file held before, in order, followed by the new
\* one, so after two such adds both new patterns are there with the old ones
C24_SequentialAddsKeepAll ==
    (Returned({"add"}, TRUE) /\ call.target = "local") =>
        /\ localFile.kind = "doc"
        /\ DOMAIN read_json_file(localFile) = {"version", "patterns"}
        /\ localFile.patterns
               = Append(read_patterns(call.before.local), Rule(call.req.pattern_id))
        /\ globalFile = call.before.global

\* the second of two adds has returned: the file holds the pattern it started
\* with and both new ones
C24_Witness ==
    /\ Returned({"add"}, TRUE)
    /\ call.target = "local"
    /\ call.req.pattern_id = "b"
    /\ read_patterns(call.before.local) = <<Legacy, Rule("a")>>
    /\ localFile.patterns = <<Legacy, Rule("a"), Rule("b")>>

-----------------------------------------------------------------------------
RepoOps == {"add", "update", "enable", "disable", "delete"}

\* C25: the list of patterns read back from a store file that write_json_file
\* has written is the list that was written, field for field and in order
C25_RoundTrip ==
    Returned(RepoOps, TRUE) =>
        /\ "patterns" \in DOMAIN read_json_file(OnDisk(call.target))
        /\ read_json_file(OnDisk(call.target)).patterns = call.data.patterns

\* a list of three was written, with a backslash, quotation marks, a number
\* and a truth value among its fields
C25_Witness ==
    /\ Returned(RepoOps, TRUE)
    /\ Len(call.data.patterns) = 3
    /\ \E i, j \in 1..3 :
           /\ call.data.patterns[i] = Legacy
           /\ call.data.patterns[j] = [Rule("b") EXCEPT !.enabled = FALSE]
    /\ OnDisk(call.target).kind = "doc"

\* an empty list was written and read back
C25_WitnessEmpty ==
    /\ Returned(RepoOps, TRUE)
    /\ call.data.patterns = << >>
    /\ OnDisk(call.target).kind = "doc"

-----------------------------------------------------------------------------
\* the ids in a store file as the call found it
IdsBefore(path) == ExistingIds(read_patterns(call.before[path]))

\* the call asked for a write the store it aims at cannot take: an add of an
\* id the store has, or another operation on an id the store (either store,
\* when no scope was given) does not have
Conflict ==
    LET id == call.req.pattern_id
        scope == call.req.scope
    IN  IF call.req.op = "add" THEN id \in IdsBefore(ScopeFile(scope))
        ELSE IF scope = None THEN id \notin IdsBefore("global") \cup IdsBefore("local")
        ELSE id \notin IdsBefore(ScopeFile(scope))

\* C26: an add of an id the target store already has, and an update, enable,
\* disable or delete of an id the target store does not have, never starts a
\* write, returns False with a message on stderr, and leaves both store
\* files as they were
C26_ConflictsFailAndChangeNothing ==
    /\ call.pc = "writing" => ~Conflict
    /\ (call.pc = "returned" /\ Conflict) =>
           /\ call.result = FALSE
           /\ call.stderr # << >>
           /\ Stores = call.before
           /\ tmp = NoTemp

\* an add of an id the local store has was refused, with a global store that
\* does not have the id
C26_Witness ==
    /\ Returned({"add"}, FALSE)
    /\ Conflict
    /\ call.target = "local"
    /\ call.req.pattern_id \notin IdsBefore("global")
    /\ call.stderr = <<"Pattern with ID '" \o call.req.pattern_id \o "' already exists">>

\* an update of an id that only the other store has was refused
C26_WitnessMissing ==
    /\ Returned({"update", "enable", "disable", "delete"}, FALSE)
    /\ Conflict
    /\ call.req.scope = "local"
    /\ call.req.pattern_id \in IdsBefore("global")

-----------------------------------------------------------------------------
\* the operations that take an optional scope
ScopedOps == {"update", "enable", "disable", "delete"}

\* what a successful call of the operation leaves in the store it chose,
\* given the list it found there
AppliedTo(found) ==
    LET id == call.req.pattern_id
        at == find_pattern(found, id)
        now == read_patterns(OnDisk(call.target))
        changed == IF call.req.op = "update" THEN call.req.updates
                   ELSE [enabled |-> call.req.op = "enable"]
    IN  IF call.req.op = "delete"
        THEN now = SelectSeq(found, LAMBDA p : Get(p, "id", "") # id)
        ELSE now = [found EXCEPT ![at] = DictUpdate(@, changed)]

\* C27: update, enable, disable and delete called without a scope choose the
\* local store when the id is in both stores, and then never touch the
\* global file; they choose the global store when only it has the id, and
\* then never touch the local file; a call that returns True has changed the
\* chosen store as the operation says.  get(id) returns the first local
\* pattern with the id, with scope "local", whenever the local store has one
C27_ScopeIsLocalThenGlobal ==
    /\ (call.pc # "none" /\ call.req.op \in ScopedOps /\ call.req.scope = None) =>
           /\ call.req.pattern_id \in IdsBefore("local") =>
                  /\ call.target = "local"
                  /\ globalFile = call.before.global
                  /\ Returned(ScopedOps, TRUE) => AppliedTo(read_patterns(call.before.local))
           /\ call.req.pattern_id \in IdsBefore("global") \ IdsBefore("local") =>
                  /\ call.target = "global"
                  /\ localFile = call.before.local
                  /\ Returned(ScopedOps, TRUE) => AppliedTo(read_patterns(call.before.global))
    /\ \A id \in ExistingIds(read_patterns(localFile)) :
           LET got == get_pattern(id, globalFile, localFile, platform)
               at == find_pattern(read_patterns(localFile), id)
           IN  /\ got.found
               /\ got.scope = "local"
               /\ got.pattern._scope = "local"
               /\ \A k \in DOMAIN localFile.patterns[at] :
                      got.pattern[k] = localFile.patterns[at][k]

\* a disable without a scope, of an id both stores had, has returned True:
\* the local pattern is disabled and the global one is not
C27_Witness ==
    /\ Returned({"disable"}, TRUE)
    /\ call.req.scope = None
    /\ call.req.pattern_id \in IdsBefore("local") \cap IdsBefore("global")
    /\ \E i \in 1..Len(read_patterns(localFile)) :
           /\ localFile.patterns[i].id = call.req.pattern_id
           /\ localFile.patterns[i].enabled = FALSE
    /\ \E i \in 1..Len(read_patterns(globalFile)) :
           /\ globalFile.patterns[i].id = call.req.pattern_id
           /\ globalFile.patterns[i].enabled = TRUE

\* a delete without a scope, of an id only the global store had, has returned
C27_WitnessGlobal ==
    /\ Returned({"delete"}, TRUE)
    /\ call.req.scope = None
    /\ call.req.pattern_id \in IdsBefore("global") \ IdsBefore("local")
    /\ globalFile # call.before.global

-----------------------------------------------------------------------------
\* no two patterns of the list have the same id
UniqueIds(patterns) ==
    \A i, j \in 1..Len(patterns) :
        Get(patterns[i], "id", "") = Get(patterns[j], "id", "") => i = j

\* C28: no store file ever holds two patterns with the same id
C28_IdsStayUnique ==
    /\ UniqueIds(read_patterns(globalFile))
    /\ UniqueIds(read_patterns(localFile))

-----------------------------------------------------------------------------
\* a hook has run since the last repository call returned True (repository
\* steps wait for a hook to exit, so a recorded hook started after the return)
RanAfterWrite == HookRan /\ call.pc = "returned" /\ call.result

\* the store a pattern of the merged view was read from: the local one
\* whenever it has the id
Origin(p) ==
    IF Get(p, "id", "") \in ExistingIds(read_patterns(localFile)) THEN "local" ELSE "global"

\* the hook fired a pattern that has the id of the call and was read from the
\* store the call wrote
FiredTheOneWritten ==
    /\ last.out.fired # 0
    /\ Get(Merged[last.out.fired], "id", "") = call.req.pattern_id
    /\ Origin(Merged[last.out.fired]) = call.target

\* C30: a hook that runs after a repository call has returned True decides on
\* the files the call left: its outcome is the one computed from them, after
\* a disable or delete it does not fire the pattern of that id in the store
\* written, and after an add the new pattern is in the merged view it
\* evaluates (unless the local store has the id and the add went to the global
\* one: the local pattern then stands for the id)
C30_HooksSeeTheLastWrite ==
    RanAfterWrite =>
        /\ last.out = RunHook(last.proc, last.stdin, globalFile, localFile, last.env)
        /\ call.req.op \in {"disable", "delete"} => ~FiredTheOneWritten
        /\ (call.req.op = "add" /\ Origin(Rule(call.req.pattern_id)) = call.target)
               => Rule(call.req.pattern_id) \in Elems(Merged)

-----------------------------------------------------------------------------
(* Hook invocations step by step: the process starts its children one      *)
(* after the other and waits for each in subprocess.run, whose timer ends  *)
(* the wait of a child that does not end by itself; then it writes its     *)
(* response and exits.  Time passes in seconds.                            *)

\* longest wait the clock has to count
MaxClock == 30

\* two patterns with a check script, and commands with and without a timeout
LivePool ==
    { [id |-> "check", hook |-> "PreToolUse", check_script |-> "check.sh",
       action |-> "block", message |-> "script says no"],
      [id |-> "recheck", hook |-> "PreToolUse", check_script |-> "check.sh",
       pattern |-> "push", action |-> "warn", message |-> "script warns"],
      [id |-> "quick", hook |-> "PostToolUse", action |-> "run", command |-> "make lint",
       timeout |-> 2, message |-> "linted"],
      [id |-> "slow", hook |-> "PostToolUse", action |-> "run", command |-> "make check",
       message |-> "checked"] }

\* a project's own check script
LocalCheck ==
    [id |-> "local-check", hook |-> "PreToolUse", check_script |-> "check.sh",
     action |-> "block", message |-> "project script says no"]

\* subprocess.run(..., timeout=None): the wait has no limit
NoLimit == 0 - 1

\* (mutant of wait_limit: subprocess.run is called without a timeout)
wait_limit_None(child) == NoLimit

\* the timeout subprocess.run is given: 5 for a check script, the one worked
\* out from the pattern for a run action
wait_limit(child) == IF "timeout" \in DOMAIN child THEN child.timeout ELSE 5

\* the child exits by itself, or was never started
EndsItself(child) == child.ended \in {"exit0", "exit1", "exit"}
NeverStarted(child) == child.ended \in {"noexec", "spawnfail"}

HookPlatform(proc) ==
    IF proc \in {"before-shell", "before-prompt", "after-shell", "after-tool"}
    THEN "cursor" ELSE "claude"

HookEvents(proc) ==
    CASE proc = "before-shell" -> ShellEvents
      [] proc \in {"before-prompt", "prompt-checker"} -> PromptEvents
      [] proc = "tool-checker" -> ToolEvents
      [] proc = "after-shell" -> AfterShellEvents
      [] OTHER -> AfterToolEvents

HookEnvs(proc, stdin) ==
    IF proc \in {"before-shell", "tool-checker"} THEN ScriptEnvsFor(stdin)
    ELSE IF proc \in PostHooks THEN CommandEnvsFor(stdin)
    ELSE {NoEnv}

\* the child the process is waiting for, or has dealt with last
Child == last.out.spawned[last.child]

Running == last.proc \in Hooks /\ last.pc = "running"
Waiting == last.proc \in Hooks /\ last.pc = "waiting"
Responded == last.proc \in Hooks /\ last.pc = "responded"

StoresStay == UNCHANGED <<platform, globalFile, localFile, tmp, call>>

\* the host starts a hook: it reads its input and the two store files
Invoke ==
    /\ Idle
    /\ \E proc \in Hooks :
           /\ platform = HookPlatform(proc)
           /\ \E stdin \in HookEvents(proc) : \E env \in HookEnvs(proc, stdin) :
                  last' = [proc |-> proc, stdin |-> stdin, env |-> env,
                           out |-> RunHook(proc, stdin, globalFile, localFile, env),
                           pc |-> "running", child |-> 0, clock |-> 0]
    /\ StoresStay

\* the loop reaches a pattern that needs a child: subprocess.run starts it and
\* waits, unless starting it fails
Spawn ==
    /\ Running
    /\ last.child < Len(last.out.spawned)
    /\ last' = [last EXCEPT !.child = @ + 1, !.clock = 0,
                            !.pc = IF NeverStarted(last.out.spawned[last.child + 1])
                                   THEN "running" ELSE "waiting"]
    /\ StoresStay

\* a second passes while the child runs; a child that ends by itself does so
\* before the limit
Tick ==
    /\ Waiting
    /\ last.clock < MaxClock
    /\ wait_limit(Child) # NoLimit => last.clock < wait_limit(Child)
    /\ EndsItself(Child) => last.clock + 1 < wait_limit(Child)
    /\ last' = [last EXCEPT !.clock = @ + 1]
    /\ StoresStay

\* the child exits and subprocess.run returns
ChildEnds ==
    /\ Waiting
    /\ EndsItself(Child)
    /\ last' = [last EXCEPT !.pc = "running"]
    /\ StoresStay

\* the limit is reached: subprocess.run kills the child and raises
\* TimeoutExpired, which the hook catches
TimerFires ==
    /\ Waiting
    /\ ~EndsItself(Child)
    /\ last.clock = wait_limit(Child)
    /\ last' = [last EXCEPT !.pc = "running"]
    /\ StoresStay

\* no child is left to wait for: the process prints what it has to print
Respond ==
    /\ Running
    /\ last.child = Len(last.out.spawned)
    /\ last' = [last EXCEPT !.pc = "responded"]
    /\ StoresStay

\* sys.exit(0), or the exit code of the prompt dialect
ExitLive ==
    /\ Responded
    /\ last' = [proc |-> "none"]
    /\ StoresStay

NextLive ==
    \/ Invoke
    \/ Spawn
    \/ Tick
    \/ ChildEnds
    \/ TimerFires
    \/ Respond
    \/ ExitLive

InitLive ==
    /\ platform \in Platforms
    /\ globalFile \in Files(LivePool, MaxGlobal)
    /\ localFile \in {MissingFile, Doc(<<LocalCheck>>)}
    /\ last = [proc |-> "none"]
    /\ tmp = NoTemp
    /\ call = NoCall

\* time passes, a started process is scheduled, a child that ends by itself
\* does end, and the timer of subprocess.run goes off when its limit is reached
Fairness ==
    /\ WF_vars(Spawn)
    /\ WF_vars(Tick)
    /\ WF_vars(ChildEnds)
    /\ WF_vars(TimerFires)
    /\ WF_vars(Respond)
    /\ WF_vars(ExitLive)

SpecLive == InitLive /\ [][NextLive]_vars /\ Fairness

\* a child started through the shell is a run action's command
IsCommand(child) == "shell" \in DOMAIN child

\* while the process waits, no more seconds have passed than the limit, which
\* is 5 for a check script and the pattern's timeout, or 30, for a command
WaitIsBounded ==
    Waiting =>
        /\ last.clock <= wait_limit(Child)
        /\ wait_limit(Child)
               = IF IsCommand(Child) THEN Get(Merged[Child.by], "timeout", 30) ELSE 5

\* a check script that ran into the limit did not make its pattern fire, and a
\* command that ran into it left no response on stdout and exit code 0
TimeoutIsNoMatch ==
    last.proc \in Hooks =>
        \A k \in 1..last.child :
            last.out.spawned[k].ended = "timeout" =>
                IF IsCommand(last.out.spawned[k])
                THEN last.out.exit = 0 /\ last.out.stdout = << >>
                ELSE last.out.fired # last.out.spawned[k].by

\* C29: every hook invocation writes its response and exits, also when a
\* check script or a command never ends by itself: the wait for a check
\* script ends after 5 seconds and the wait for a command after the pattern's
\* timeout (30 seconds when it has none), and the hook goes on as for a
\* pattern that did not match or a command that failed
C29_HooksAlwaysEnd ==
    /\ [](WaitIsBounded /\ TimeoutIsNoMatch)
    /\ (last.proc \in Hooks) ~> Responded
    /\ Responded ~> Idle

\* the timer has just ended the wait for a child that does not end by itself,
\* after another child was waited for the full five seconds
C29_Witness ==
    /\ Running
    /\ last.child = 2
    /\ \A k \in 1..2 : last.out.spawned[k].ended = "timeout"
    /\ last.clock = wait_limit(Child)

\* a command without a timeout of its own was waited for 30 seconds
C29_WitnessCommand ==
    /\ Responded
    /\ last.child = 1
    /\ IsCommand(Child)
    /\ Child.ended = "timeout"
    /\ "timeout" \notin DOMAIN Merged[Child.by]
    /\ last.clock = 30

-----------------------------------------------------------------------------
\* patterns that leave the action to the default, one for each hook point
DefaultPool ==
    { [id |-> "plain-pre", hook |-> "PreToolUse", pattern |-> "push", message |-> "pre"],
      [id |-> "plain-prompt", hook |-> "UserPromptSubmit", pattern |-> "FORCE",
       message |-> "prompt"],
      [id |-> "plain-post", hook |-> "PostToolUse", message |-> "post"] }

InitDefault ==
    /\ platform \in Platforms
    /\ globalFile \in Files(DefaultPool, MaxGlobal)
    /\ localFile \in Files(DefaultPool, MaxLocal)
    /\ last = [proc |-> "none"]
    /\ tmp = NoTemp
    /\ call = NoCall

SpecDefault == InitDefault /\ [][Next]_vars

\* the store file with "warn" written out in every pattern that names no action
WithWarn(file) ==
    IF file.kind # "doc" THEN file
    ELSE [file EXCEPT !.patterns =
             [i \in 1..Len(file.patterns) |->
                 IF "action" \in DOMAIN file.patterns[i] THEN file.patterns[i]
                 ELSE DictUpdate(file.patterns[i], [action |-> "warn"])]]

\* C31: a hook that fires a pattern with no action field writes what it
\* writes when the pattern says action "warn"
C31_NoActionIsWarn ==
    (HookRan /\ last.out.fired # 0 /\ "action" \notin DOMAIN Merged[last.out.fired]) =>
        Emitted(last.out)
            = Emitted(RunHook(last.proc, last.stdin, WithWarn(globalFile),
                              WithWarn(localFile), last.env))

-----------------------------------------------------------------------------
(* json_utils.get_patterns, as the `filter` command of json_utils.py calls  *)
(* it on the merged list                                                    *)

\* no filter given: None, or an empty string
NoFilter == ""

get_patterns(patterns, hook_type, matcher, enabled_only) ==
    LET enabled == IF enabled_only
                   THEN SelectSeq(patterns, LAMBDA p : Get(p, "enabled", FALSE))
                   ELSE patterns
        hooked == IF hook_type # NoFilter
                  THEN SelectSeq(enabled, LAMBDA p : Get(p, "hook", NoFilter) = hook_type)
                  ELSE enabled
    IN  IF matcher # NoFilter
        THEN SelectSeq(hooked, LAMBDA p : Get(p, "matcher", NoFilter) \in {matcher, "*"})
        ELSE hooked

\* patterns with and without an enabled field and a matcher
FilterPool ==
    { [id |-> "on", enabled |-> TRUE, hook |-> "PreToolUse", matcher |-> "Bash",
       pattern |-> "push", message |-> "on"],
      [id |-> "off", enabled |-> FALSE, hook |-> "PreToolUse", matcher |-> "*",
       pattern |-> "push", message |-> "off"],
      [id |-> "star", enabled |-> TRUE, hook |-> "PreToolUse", matcher |-> "*",
       pattern |-> "push", message |-> "star"],
      [id |-> "edits", enabled |-> TRUE, hook |-> "PostToolUse", matcher |-> "Edit",
       action |-> "notify", message |-> "edits"],
      [id |-> "unset", hook |-> "PreToolUse", matcher |-> "Bash", pattern |-> "push",
       message |-> "unset"],
      [id |-> "anytool", enabled |-> TRUE, hook |-> "PreToolUse", pattern |-> "push",
       message |-> "anytool"] }

HookTypes == {"PreToolUse", "PostToolUse"}
Matchers == {"Bash", "Edit"}

\* json_utils.py filter --hook ... --matcher ... [--all]
GetPatterns ==
    /\ Idle
    /\ \E hook_type \in HookTypes, matcher \in Matchers, enabled_only \in BOOLEAN :
           last' = [proc |-> "get_patterns",
                    stdin |-> [hook_type |-> hook_type, matcher |-> matcher,
                               enabled_only |-> enabled_only],
                    out |-> get_patterns(merge_patterns(globalFile, localFile),
                                         hook_type, matcher, enabled_only)]
    /\ UNCHANGED <<platform, globalFile, localFile, tmp, call>>

NextFilter ==
    \/ GetPatterns
    \/ Exit

InitFilter ==
    /\ platform \in Platforms
    /\ globalFile \in Files(FilterPool, MaxGlobal)
    /\ localFile \in Files(FilterPool, MaxLocal)
    /\ last = [proc |-> "none"]
    /\ tmp = NoTemp
    /\ call = NoCall

SpecFilter == InitFilter /\ [][NextFilter]_vars

\* C32: with enabled_only, get_patterns returns, in input order, the patterns
\* that are enabled (no enabled field counts as enabled), have the hook asked
\* for, and have the matcher asked for, "*" or none
C32_FilterKeepsEnabledHookMatcher ==
    (last.proc = "get_patterns" /\ last.stdin.enabled_only) =>
        last.out = SelectSeq(merge_patterns(globalFile, localFile),
                             LAMBDA p : /\ Get(p, "enabled", TRUE)
                                        /\ Get(p, "hook", "") = last.stdin.hook_type
                                        /\ Get(p, "matcher", "")
                                               \in {last.stdin.matcher, "*", ""})

-----------------------------------------------------------------------------
(* PatternManager.list_patterns and PatternTester.simulate_command          *)

\* how many patterns of the list have the id
CountId(patterns, pid) ==
    Cardinality({i \in 1..Len(patterns) : Get(patterns[i], "id", "") = pid})

\* the loop that keeps the first pattern of each id not seen so far; patterns
\* without an id are dropped
RECURSIVE UniqueFrom(_, _, _, _)
UniqueFrom(patterns, i, seen, kept) ==
    IF i > Len(patterns) THEN [seen |-> seen, kept |-> kept]
    ELSE LET pid == Get(patterns[i], "id", "")
         IN  IF pid # "" /\ pid \notin seen
             THEN UniqueFrom(patterns, i + 1, seen \cup {pid}, Append(kept, patterns[i]))
             ELSE UniqueFrom(patterns, i + 1, seen, kept)

list_patterns(scope, enabled_only, gfile, lfile, self_platform) ==
    LET annotate(ps, s) == [i \in 1..Len(ps) |-> Annotated(ps[i], s, self_platform)]
        globals == IF scope \in {"all", "global"}
                   THEN annotate(read_patterns(gfile), "global") ELSE << >>
        locals == IF scope \in {"all", "local"}
                  THEN annotate(read_patterns(lfile), "local") ELSE << >>
        both == globals \o locals
        marked == [i \in 1..Len(locals) |->
                      IF /\ Get(locals[i], "id", "") # ""
                         /\ CountId(both, Get(locals[i], "id", "")) > 1
                      THEN DictUpdate(locals[i], [_overrides_global |-> TRUE])
                      ELSE locals[i]]
        first == UniqueFrom(marked, 1, {}, << >>)
        patterns == IF scope = "all"
                    THEN UniqueFrom(globals, 1, first.seen, first.kept).kept
                    ELSE both
    IN  IF enabled_only THEN SelectSeq(patterns, LAMBDA p : Get(p, "enabled", TRUE))
        ELSE patterns

\* the index of the first result that matched, 0 when none did
FirstMatched(results) ==
    IF \E i \in 1..Len(results) : results[i].matched
    THEN CHOOSE i \in 1..Len(results) :
             results[i].matched /\ \A j \in 1..(i - 1) : ~results[j].matched
    ELSE 0

\* first_match is given as the index of the result, 0 for None
simulate_command(command, tool_name, gfile, lfile, self_platform, env) ==
    LET all_patterns == list_patterns("all", TRUE, gfile, lfile, self_platform)
        relevant_patterns ==
            SelectSeq(all_patterns,
                      LAMBDA p : Get(p, "hook", "") \in {"PreToolUse", "beforeShellExecution"})
        results ==
            [i \in 1..Len(relevant_patterns) |->
                LET tested == test_pattern(relevant_patterns[i].id, command, tool_name,
                                           self_platform, gfile, lfile, env)
                IN  [pattern_id |-> relevant_patterns[i].id, matched |-> tested.matched,
                     action |-> tested.action, message |-> tested.message,
                     scope |-> relevant_patterns[i]._scope]]
        first_match == FirstMatched(results)
    IN  [command |-> command, tool |-> tool_name, patterns_checked |-> Len(results),
         results |-> results, first_match |-> first_match,
         would_allow |-> first_match = 0 \/ results[first_match].action \in {"warn", "ask"},
         would_block |-> first_match # 0 /\ results[first_match].action = "block"]

\* pre-command patterns with each kind of action
SimPool ==
    { NoForcePush,
      [id |-> "pushing", hook |-> "PreToolUse", pattern |-> "push", action |-> "warn",
       message |-> "pushing"],
      [id |-> "git-note", hook |-> "PreToolUse", matcher |-> "Bash", pattern |-> "git",
       action |-> "notify", message |-> "git used"],
      [id |-> "git-ask", hook |-> "beforeShellExecution", pattern |-> "git",
       action |-> "ask", message |-> "really?"] }

SimCommands == Commands \cup {"ls"}

\* pattern_tester.py simulate <command>
Simulate ==
    /\ Idle
    /\ \E command \in SimCommands :
           last' = Ran("simulate_command", [command |-> command, tool_name |-> "Bash"],
                       NoEnv,
                       simulate_command(command, "Bash", globalFile, localFile, platform,
                                        NoEnv))
    /\ UNCHANGED <<platform, globalFile, localFile, tmp, call>>

\* the statistics of simulate_batch over the simulations of its commands: how
\* many would be blocked and how many allowed
simulate_batch(results) ==
    [total_commands |-> Len(results),
     would_allow |-> Cardinality({i \in 1..Len(results) : results[i].would_allow}),
     would_block |-> Cardinality({i \in 1..Len(results) : results[i].would_block})]

\* longest file of commands given to the batch command
MaxBatch == 2

\* pattern_tester.py batch <file>
SimulateBatch ==
    /\ Idle
    /\ \E commands \in SeqsUpTo(SimCommands, MaxBatch) :
           last' = Ran("simulate_batch", [commands |-> commands, tool_name |-> "Bash"],
                       NoEnv,
                       simulate_batch([i \in 1..Len(commands) |->
                                          simulate_command(commands[i], "Bash", globalFile,
                                                           localFile, platform, NoEnv)]))
    /\ UNCHANGED <<platform, globalFile, localFile, tmp, call>>

NextSim ==
    \/ Simulate
    \/ SimulateBatch
    \/ Exit

InitSim ==
    /\ platform \in Platforms
    /\ globalFile \in Files(SimPool, MaxLocal)
    /\ localFile \in Files(SimPool, MaxLocal)
    /\ last = [proc |-> "none"]
    /\ tmp = NoTemp
    /\ call = NoCall

SpecSim == InitSim /\ [][NextSim]_vars

Simulated == last.proc = "simulate_command"

\* the pre-command hook of the platform, and the event the host sends it for
\* the command
PreCommandHook == IF platform = "claude" THEN "tool-checker" ELSE "before-shell"

PreCommandEvent(command) ==
    IF platform = "claude"
    THEN Object([tool_name |-> "Bash", tool_input |-> [command |-> command]])
    ELSE Object([command |-> command])

\* what the hook does for the simulated command on the same store files
HookWould ==
    RunHook(PreCommandHook, PreCommandEvent(last.stdin.command), globalFile, localFile,
            last.env)

\* C33: simulate_command says would_block exactly when the platform's
\* pre-command hook blocks the command, and names as first_match the pattern
\* the hook fires (none when the hook fires none)
C33_SimulationPredictsHook ==
    Simulated =>
        /\ last.out.would_block = IsBlocking(PreCommandHook, HookWould)
        /\ (last.out.first_match = 0) = (HookWould.fired = 0)
        /\ last.out.first_match # 0 =>
               last.out.results[last.out.first_match].pattern_id
                   = Get(Merged[HookWould.fired], "id", "")

\* C34: simulate_command reports exactly one of would_allow and would_block,
\* and simulate_batch's two counts add up to the number of commands
C34_AllowAndBlockAreComplements ==
    /\ Simulated => (last.out.would_allow # last.out.would_block)
    /\ last.proc = "simulate_batch" =>
           last.out.would_allow + last.out.would_block = last.out.total_commands

-----------------------------------------------------------------------------
(* Two repository calls write the same store file at the same time.  Each   *)
(* is a process of its own; its steps are the reads and writes of           *)
(* add_pattern / delete_pattern and write_json_file: read the store, open   *)
(* (create or truncate) the temporary file, write and close it, rename it   *)
(* over the store.  Both use the one path path.with_suffix('.tmp').  Here   *)
(* `call` holds the two processes and `tmp` the file at the temporary path. *)

Writers == {"w1", "w2"}

RaceTarget == "global"

\* what each of the two calls is asked to do
RaceRequests ==
    {[op |-> "add", pattern_id |-> id] : id \in RepoIds}
        \cup {[op |-> "delete", pattern_id |-> id] : id \in RepoIds}

\* the decision of the call on the store as it reads it
RacePlan(req, gfile, lfile, self_platform) ==
    IF req.op = "add"
    THEN add_pattern(Rule(req.pattern_id), RaceTarget, gfile, lfile, self_platform)
    ELSE delete_pattern(req.pattern_id, RaceTarget, FALSE, "Y", gfile, lfile, self_platform)

\* the text json.dump produces for the document a file holds
TextOf(file) == JsonDump([version |-> file.version, patterns |-> file.patterns])

\* a process writes its text from offset 0 into a file that another process
\* has written since it was truncated: the bytes beyond the new text stay
Overwrite(old, data) ==
    IF old.kind # "doc" THEN JsonLoad(JsonDump(data))
    ELSE LET new == JsonDump(data)
             rest == SubSeq(TextOf(old), Len(new) + 1, Len(TextOf(old)))
         IN  JsonLoad(new \o rest)

\* where the file a process has open is now: still at the temporary path, at
\* the store path after a rename, or unlinked
RaceStart == [pc |-> "start", fd |-> "none"]

InRace == call.pc = "race"

\* json_utils.add_pattern / delete_pattern: read_json_file, then decide
RaceRead(w) ==
    /\ InRace
    /\ call.w[w].pc = "start"
    /\ \E req \in RaceRequests :
           LET plan == RacePlan(req, globalFile, localFile, platform)
           IN  call' = [call EXCEPT !.w[w] =
                            IF plan.write
                            THEN [pc |-> "read", fd |-> "none", req |-> req,
                                  data |-> plan.data]
                            ELSE [pc |-> "returned", fd |-> "none", req |-> req,
                                  result |-> FALSE]]
    /\ UNCHANGED <<platform, globalFile, localFile, last, tmp>>

\* open(temp_path, 'w'): the file at the path is created, or truncated when
\* the other process has created it
RaceOpen(w) ==
    /\ InRace
    /\ call.w[w].pc = "read"
    /\ tmp' = [tmp EXCEPT ![temp_path(RaceTarget)] = PartialFile]
    /\ call' = [call EXCEPT !.w[w].pc = "opened", !.w[w].fd = "temp"]
    /\ UNCHANGED <<platform, globalFile, localFile, last>>

\* the end of the with block: the text goes into the file the process has
\* open, wherever that file is by now
RaceWrite(w) ==
    /\ InRace
    /\ call.w[w].pc = "opened"
    /\ tmp' = IF call.w[w].fd = "temp"
              THEN [tmp EXCEPT ![temp_path(RaceTarget)] = Overwrite(@, call.w[w].data)]
              ELSE tmp
    /\ globalFile' = IF call.w[w].fd = "store" THEN Overwrite(globalFile, call.w[w].data)
                     ELSE globalFile
    /\ call' = [call EXCEPT !.w[w].pc = "written", !.w[w].fd = "none"]
    /\ UNCHANGED <<platform, localFile, last>>

\* temp_path.replace(path): the file at the temporary path becomes the store
\* file; a file the other process still has open moves with it
RaceRename(w) ==
    /\ InRace
    /\ call.w[w].pc = "written"
    /\ tmp[temp_path(RaceTarget)] # MissingFile
    /\ globalFile' = tmp[temp_path(RaceTarget)]
    /\ tmp' = [tmp EXCEPT ![temp_path(RaceTarget)] = MissingFile]
    /\ call' = [call EXCEPT
                    !.w = [v \in Writers |->
                              IF v = w
                              THEN [pc |-> "returned", fd |-> "none", req |-> call.w[v].req,
                                    data |-> call.w[v].data, result |-> TRUE]
                              ELSE [call.w[v] EXCEPT
                                        !.fd = IF @ = "temp" THEN "store"
                                               ELSE IF @ = "store" THEN "gone" ELSE @]]]
    /\ UNCHANGED <<platform, localFile, last>>

\* replace raises FileNotFoundError when the other process has renamed the
\* file away; the except block finds nothing to unlink and returns False
RaceRenameFails(w) ==
    /\ InRace
    /\ call.w[w].pc = "written"
    /\ tmp[temp_path(RaceTarget)] = MissingFile
    /\ call' = [call EXCEPT !.w[w] = [pc |-> "returned", fd |-> "none", req |-> @.req,
                                      data |-> @.data, result |-> FALSE]]
    /\ UNCHANGED <<platform, globalFile, localFile, last, tmp>>

\* a hook, or any other reader, reads the store file while the calls run
RaceReader ==
    /\ InRace
    /\ Idle
    /\ last' = Ran("read_json_file", [path |-> RaceTarget, saw |-> globalFile], NoEnv,
                   read_json_file(globalFile))
    /\ UNCHANGED <<platform, globalFile, localFile, tmp, call>>

NextRace ==
    \/ \E w \in Writers : RaceRead(w)
    \/ \E w \in Writers : RaceOpen(w)
    \/ \E w \in Writers : RaceWrite(w)
    \/ \E w \in Writers : RaceRename(w)
    \/ \E w \in Writers : RaceRenameFails(w)
    \/ RaceReader
    \/ Exit

\* the store file is absent or a complete document, and no temporary file is
\* left over from an earlier call
InitRace ==
    /\ platform = "claude"
    /\ globalFile \in {MissingFile, Doc(<<Rule("a")>>), Doc(<<Rule("a"), Rule("b")>>)}
    /\ localFile = MissingFile
    /\ last = [proc |-> "none"]
    /\ tmp = NoTemp
    /\ call = [pc |-> "race", base |-> globalFile, w |-> [w \in Writers |-> RaceStart]]

SpecRace == InitRace /\ [][NextRace]_vars

\* the documents the calls that have read the store intend to write
Intended ==
    {JsonLoad(JsonDump(call.w[w].data)) :
        w \in {v \in Writers : "data" \in DOMAIN call.w[v]}}

\* C35: while two calls write the same store file with their steps
\* interleaved, the store file holds at every moment the document it held
\* before or the complete document one of the two calls intended to write, and
\* a reader sees nothing else
C35_StoreIsAlwaysOneWritersDocument ==
    InRace =>
        /\ globalFile \in {call.base} \cup Intended
        /\ last.proc = "read_json_file" =>
               last.stdin.saw \in {call.base} \cup Intended

-----------------------------------------------------------------------------
\* the store the call did not choose
OtherStore(path) == IF path = "global" THEN "local" ELSE "global"

\* the positions of the list that hold a pattern with another id
Untouched(patterns, id) == {i \in 1..Len(patterns) : Get(patterns[i], "id", "") # id}

\* C36: a repository call that returns True keeps the stored order of the
\* patterns it does not touch: add puts the new pattern after all that were
\* there; update, enable and disable keep the length and every pattern but the
\* one they change where it was; delete of an id leaves the patterns with
\* another id, in the order they had; the store of the other scope is as it was
C36_WritesKeepTheOrder ==
    Returned(RepoOps, TRUE) =>
        LET was == read_patterns(call.before[call.target])
            now == read_patterns(OnDisk(call.target))
            id == call.req.pattern_id
        IN  /\ OnDisk(OtherStore(call.target)) = call.before[OtherStore(call.target)]
            /\ call.req.op = "add" =>
                   /\ Len(now) = Len(was) + 1
                   /\ SubSeq(now, 1, Len(was)) = was
                   /\ now[Len(now)].id = id
            /\ call.req.op \in {"update", "enable", "disable"} =>
                   /\ Len(now) = Len(was)
                   /\ \A i \in 1..Len(was) : i # find_pattern(was, id) => now[i] = was[i]
            /\ call.req.op = "delete" =>
                   /\ Len(now) = Cardinality(Untouched(was, id))
                   /\ \A i \in Untouched(was, id) :
                          now[Cardinality({j \in Untouched(was, id) : j <= i})] = was[i]

\* a delete has returned True and left two patterns, one that stood before
\* the deleted one and one that stood after it
C36_Witness ==
    /\ Returned({"delete"}, TRUE)
    /\ LET was == read_patterns(call.before[call.target])
           at == find_pattern(was, call.req.pattern_id)
       IN  /\ 1 < at
           /\ at < Len(was)
           /\ Len(read_patterns(OnDisk(call.target))) = 2

\* an add has returned True on a store that held two patterns
C36_WitnessAdd ==
    /\ Returned({"add"}, TRUE)
    /\ Len(read_patterns(call.before[call.target])) = 2

\* an enable, disable or update has returned True for the second of two patterns
C36_WitnessUpdate ==
    /\ Returned({"update", "enable", "disable"}, TRUE)
    /\ find_pattern(read_patterns(call.before[call.target]), call.req.pattern_id) = 2

-----------------------------------------------------------------------------
\* the flag an enable or a disable sets
FlagOf(op) == op = "enable"

\* the same call made once more on the stores as they are now
Again ==
    IF call.req.op = "enable"
    THEN enable_pattern(call.req.pattern_id, call.req.scope, globalFile, localFile, platform)
    ELSE disable_pattern(call.req.pattern_id, call.req.scope, globalFile, localFile, platform)

\* C37: an enable or a disable that returns True has changed, in the store
\* it chose, the enabled field of the first pattern with the id and nothing
\* else in either store; made again it writes the very same document; and after
\* an enable the pattern passes the enabled test of the hooks, whether it was
\* disabled before or not
C37_EnableDisableTouchOnlyTheFlag ==
    Returned({"enable", "disable"}, TRUE) =>
        LET was == read_patterns(call.before[call.target])
            now == read_patterns(OnDisk(call.target))
            at == find_pattern(was, call.req.pattern_id)
        IN  /\ at # 0
            /\ now = [was EXCEPT ![at] = DictUpdate(@, [enabled |-> FlagOf(call.req.op)])]
            /\ OnDisk(call.target).version = Get(read_json_file(call.before[call.target]),
                                                 "version", "1.0")
            /\ OnDisk(OtherStore(call.target)) = call.before[OtherStore(call.target)]
            /\ Again.write
            /\ Again.target = call.target
            /\ JsonLoad(JsonDump(Again.data)) = OnDisk(call.target)
            /\ IsEnabled(now[at]) = FlagOf(call.req.op)

\* an enable has returned True for a pattern that an earlier disable had
\* switched off
C37_Witness ==
    /\ Returned({"enable"}, TRUE)
    /\ LET was == read_patterns(call.before[call.target])
       IN  Get(was[find_pattern(was, call.req.pattern_id)], "enabled", TRUE) = FALSE

\* a disable has returned True for a pattern that was disabled already
C37_WitnessTwice ==
    /\ Returned({"disable"}, TRUE)
    /\ OnDisk(call.target) = call.before[call.target]

-----------------------------------------------------------------------------
(* cross_project.py: CrossProjectManager copies patterns between the two    *)
(* stores and takes them in from an export file.  Every copy is one         *)
(* PatternManager.add_pattern call; `fails` holds the rounds of the loop in *)
(* which write_json_file could not write.                                   *)

\* pattern_ids=None: no list of ids is given
NoList == [given |-> FALSE]
ListOf(ids) == [given |-> TRUE, ids |-> ids]

\* k.startswith('_')
IsMetadata(k) == Len(k) >= 1 /\ Ch(k, 1) = "_"

\* (mutant of WithoutMetadata: the pattern is handed on as get_pattern gave it)
WithoutMetadata_KeepsAll(p) == p

\* {k: v for k, v in pattern.items() if not k.startswith('_')}
WithoutMetadata(p) == [k \in {f \in DOMAIN p : ~IsMetadata(f)} |-> p[k]]

\* the two files and the three result lists, as the loop goes
SyncStart(gfile, lfile) ==
    [gfile |-> gfile, lfile |-> lfile, done |-> << >>, skipped |-> << >>, failed |-> << >>]

Skipped(acc, pid, why) == [acc EXCEPT !.skipped = Append(@, <<pid, why>>)]
Failed(acc, pid, why) == [acc EXCEPT !.failed = Append(@, <<pid, why>>)]

\* self.pm.add_pattern(pattern, scope=scope) inside a loop
AddedTo(acc, scope, pattern, pid, ok, why, self_platform) ==
    LET plan == add_pattern(pattern, scope, acc.gfile, acc.lfile, self_platform)
        written == JsonLoad(JsonDump(plan.data))
    IN  IF plan.write /\ ok
        THEN [acc EXCEPT !.done = Append(@, pid),
                         !.gfile = IF plan.target = "global" THEN written ELSE @,
                         !.lfile = IF plan.target = "local" THEN written ELSE @]
        ELSE Failed(acc, pid, why)

\* [p.get('id') for p in patterns if p.get('id')]
IdList(patterns) ==
    LET named == SelectSeq(patterns, LAMBDA p : Get(p, "id", "") # "")
    IN  [i \in 1..Len(named) |-> named[i].id]

\* one round of the loop of push_to_global
PushOne(acc, pid, merge_strategy, response, ok, self_platform) ==
    LET result == get_pattern(pid, acc.gfile, acc.lfile, self_platform)
        global_result == get_pattern(pid, acc.gfile, acc.lfile, self_platform)
        exists_in_global == global_result.found /\ global_result.scope = "global"
    IN  IF ~result.found THEN Failed(acc, pid, "Pattern not found")
        ELSE IF result.scope # "local" THEN Skipped(acc, pid, "Not a local pattern")
        ELSE IF exists_in_global /\ merge_strategy = "skip"
        THEN Skipped(acc, pid, "Already exists in global")
        ELSE IF exists_in_global /\ merge_strategy = "ask" /\ Lower(response) # "y"
        THEN Skipped(acc, pid, "User declined to overwrite")
        ELSE AddedTo(acc, "global", WithoutMetadata(result.pattern), pid, ok,
                     "Failed to add to global", self_platform)

RECURSIVE PushFrom(_, _, _, _, _, _, _)
PushFrom(acc, ids, i, merge_strategy, response, fails, self_platform) ==
    IF i > Len(ids) THEN acc
    ELSE PushFrom(PushOne(acc, ids[i], merge_strategy, response, i \notin fails, self_platform),
                  ids, i + 1, merge_strategy, response, fails, self_platform)

\* pattern_ids None stands for every local pattern that has an id
push_to_global(pattern_ids, merge_strategy, response, fails, gfile, lfile, self_platform) ==
    LET ids == IF ~pattern_ids.given
               THEN IdList(list_patterns("local", FALSE, gfile, lfile, self_platform))
               ELSE pattern_ids.ids
    IN  PushFrom(SyncStart(gfile, lfile), ids, 1, merge_strategy, response, fails,
                 self_platform)

\* one round of the loop of pull_from_global
PullOne(acc, pid, override, response, ok, self_platform) ==
    LET result == get_pattern(pid, acc.gfile, acc.lfile, self_platform)
        global_patterns == Get(read_json_file(acc.gfile), "patterns", << >>)
        at == find_pattern(global_patterns, pid)
        local_patterns == Get(read_json_file(acc.lfile), "patterns", << >>)
        exists_in_local == pid \in ExistingIds(local_patterns)
    IN  IF ~result.found THEN Failed(acc, pid, "Pattern not found")
        ELSE IF at = 0 THEN Skipped(acc, pid, "Not a global pattern")
        ELSE IF exists_in_local /\ ~override /\ Lower(response) # "y"
        THEN Skipped(acc, pid, "User declined to overwrite")
        ELSE AddedTo(acc, "local", global_patterns[at], pid, ok, "Failed to add to local",
                     self_platform)

RECURSIVE PullFrom(_, _, _, _, _, _, _)
PullFrom(acc, ids, i, override, response, fails, self_platform) ==
    IF i > Len(ids) THEN acc
    ELSE PullFrom(PullOne(acc, ids[i], override, response, i \notin fails, self_platform),
                  ids, i + 1, override, response, fails, self_platform)

\* pattern_ids None stands for every global pattern that has an id
pull_from_global(pattern_ids, override, response, fails, gfile, lfile, self_platform) ==
    LET ids == IF ~pattern_ids.given
               THEN IdList(list_patterns("global", FALSE, gfile, lfile, self_platform))
               ELSE pattern_ids.ids
    IN  PullFrom(SyncStart(gfile, lfile), ids, 1, override, response, fails, self_platform)

\* one round of the loop of import_patterns
ImportOne(acc, pattern, scope, override, response, ok, self_platform) ==
    LET pid == Get(pattern, "id", "")
        existing == get_pattern(pid, acc.gfile, acc.lfile, self_platform)
    IN  IF pid = "" THEN Failed(acc, "(no id)", "Pattern has no ID")
        ELSE IF existing.found /\ ~override /\ Lower(response) # "y"
        THEN Skipped(acc, pid, "User declined to overwrite")
        ELSE AddedTo(acc, scope, pattern, pid, ok, "Failed to add pattern", self_platform)

RECURSIVE ImportFrom(_, _, _, _, _, _, _, _)
ImportFrom(acc, patterns, i, scope, override, response, fails, self_platform) ==
    IF i > Len(patterns) THEN acc
    ELSE ImportFrom(ImportOne(acc, patterns[i], scope, override, response, i \notin fails,
                              self_platform),
                    patterns, i + 1, scope, override, response, fails, self_platform)

\* patterns_to_import: the patterns of the .json file or of patterns.json in
\* the .zip; choice: what the user types when the scope is 'ask'
import_patterns(patterns_to_import, scope, choice, override, response, fails, gfile, lfile, self_platform) ==
    LET to == IF scope = "ask" THEN (IF choice = "1" THEN "global" ELSE "local") ELSE scope
    IN  ImportFrom(SyncStart(gfile, lfile), patterns_to_import, 1, to, override, response,
                   fails, self_platform)

\* most ids given to one push or pull, and most patterns in one import file
MaxIds == 1

\* a local pattern with the id of the global Rule("a") and another action
LocalRule == [Rule("a") EXCEPT !.action = "warn", !.message = "local"]

Nameless == [hook |-> "PreToolUse", pattern |-> "push", action |-> "warn",
             message |-> "nameless"]

\* what an export file can hold: export_patterns writes patterns without
\* metadata fields
ImportPool == {Rule("a"), Rule("b"), Nameless}

IdLists == {NoList} \cup {ListOf(ids) : ids \in SeqsUpTo(RepoIds, MaxIds)}

\* the call has run: the results it returns and the stores it leaves
Synced(proc, stdin, acc) ==
    /\ Idle
    /\ NoCallRunning
    /\ Len(read_patterns(acc.gfile)) + Len(read_patterns(acc.lfile)) <= MaxStored
    /\ last' = Ran(proc, stdin @@ [before |-> Stores], NoEnv,
                   [done |-> acc.done, skipped |-> acc.skipped, failed |-> acc.failed])
    /\ globalFile' = acc.gfile
    /\ localFile' = acc.lfile
    /\ UNCHANGED <<platform, tmp, call>>

\* the answers that can be typed, when the call can come to ask
Answers(asks) == IF asks THEN Responses ELSE {"n"}

\* the rounds in which the disk refuses the write: none, or the first
Failures == {{}, {1}}

PushToGlobal ==
    \E pattern_ids \in IdLists, merge_strategy \in {"overwrite", "skip", "ask"},
       fails \in Failures :
        \E response \in Answers(merge_strategy = "ask") :
            Synced("push_to_global",
                   [pattern_ids |-> pattern_ids, merge_strategy |-> merge_strategy],
                   push_to_global(pattern_ids, merge_strategy, response, fails, globalFile,
                                  localFile, platform))

PullFromGlobal ==
    \E pattern_ids \in IdLists, override \in BOOLEAN, fails \in Failures :
        \E response \in Answers(~override) :
            Synced("pull_from_global", [pattern_ids |-> pattern_ids, override |-> override],
                   pull_from_global(pattern_ids, override, response, fails, globalFile,
                                    localFile, platform))

ImportPatterns ==
    \E patterns \in SeqsUpTo(ImportPool, MaxIds), scope \in Scopes \cup {"ask"},
       override \in BOOLEAN, fails \in Failures :
        \E choice \in IF scope = "ask" THEN {"1", "2"} ELSE {"1"},
           response \in Answers(~override) :
            Synced("import_patterns", [patterns |-> patterns, scope |-> scope],
                   import_patterns(patterns, scope, choice, override, response, fails,
                                   globalFile, localFile, platform))

\* pm.list_patterns(scope) and pm.get_pattern(id), as seen by their caller
ListPatterns ==
    /\ Idle
    /\ \E scope \in Scopes \cup {"all"}, enabled_only \in BOOLEAN :
           last' = Ran("list_patterns", [scope |-> scope, enabled_only |-> enabled_only],
                       NoEnv,
                       list_patterns(scope, enabled_only, globalFile, localFile, platform))
    /\ UNCHANGED <<platform, globalFile, localFile, tmp, call>>

GetPattern ==
    /\ Idle
    /\ \E id \in RepoIds :
           last' = Ran("get_pattern", [pattern_id |-> id], NoEnv,
                       get_pattern(id, globalFile, localFile, platform))
    /\ UNCHANGED <<platform, globalFile, localFile, tmp, call>>

\* a PatternManager method called between the copies, from call to return:
\* ok tells whether write_json_file could write
Applied(req, plan, ok) ==
    LET written == JsonLoad(JsonDump(plan.data))
        done == plan.write /\ ok
    IN  /\ Idle
        /\ NoCallRunning
        /\ last' = Ran(req.op, req @@ [before |-> Stores], NoEnv, [result |-> done])
        /\ globalFile' = IF done /\ plan.target = "global" THEN written ELSE globalFile
        /\ localFile' = IF done /\ plan.target = "local" THEN written ELSE localFile
        /\ UNCHANGED <<platform, tmp, call>>

SyncAdd ==
    /\ StoredCount < MaxStored
    /\ \E id \in RepoIds, scope \in Scopes, ok \in BOOLEAN :
           Applied([op |-> "add", pattern_id |-> id, scope |-> scope],
                   add_pattern(Rule(id), scope, globalFile, localFile, platform), ok)

SyncUpdate ==
    \E id \in RepoIds, updates \in Updates, scope \in Scopes \cup {None}, ok \in BOOLEAN :
        Applied([op |-> "update", pattern_id |-> id, updates |-> updates, scope |-> scope],
                update_pattern(id, updates, scope, globalFile, localFile, platform), ok)

SyncEnable ==
    \E id \in RepoIds, scope \in Scopes \cup {None}, ok \in BOOLEAN :
        Applied([op |-> "enable", pattern_id |-> id, scope |-> scope],
                enable_pattern(id, scope, globalFile, localFile, platform), ok)

SyncDisable ==
    \E id \in RepoIds, scope \in Scopes \cup {None}, ok \in BOOLEAN :
        Applied([op |-> "disable", pattern_id |-> id, scope |-> scope],
                disable_pattern(id, scope, globalFile, localFile, platform), ok)

SyncDelete ==
    \E id \in RepoIds, scope \in Scopes \cup {None}, ok \in BOOLEAN :
        Applied([op |-> "delete", pattern_id |-> id, scope |-> scope],
                delete_pattern(id, scope, FALSE, "n", globalFile, localFile, platform), ok)

NextSync ==
    \/ PushToGlobal
    \/ PullFromGlobal
    \/ ImportPatterns
    \/ ListPatterns
    \/ GetPattern
    \/ SyncAdd
    \/ SyncUpdate
    \/ SyncEnable
    \/ SyncDisable
    \/ SyncDelete
    \/ Exit

InitSync ==
    /\ platform = "claude"
    /\ globalFile \in {MissingFile, Doc(<<Rule("a")>>)}
    /\ localFile \in {MissingFile, Doc(<<LocalRule>>)}
    /\ last = [proc |-> "none"]
    /\ tmp = NoTemp
    /\ call = NoCall

SpecSync == InitSync /\ [][NextSync]_vars

\* no pattern of the file has a field whose name starts with an underscore
NoMetadataIn(file) ==
    \A i \in 1..Len(read_patterns(file)) :
        \A k \in DOMAIN read_patterns(file)[i] : ~IsMetadata(k)

\* C38: whatever is listed, got, added, updated, enabled, disabled, deleted,
\* pushed, pulled or imported, no pattern in either store file has a field
\* whose name starts with an underscore: _scope, _file and
\* _overrides_global stay in memory
C38_MetadataIsNeverStored ==
    /\ NoMetadataIn(globalFile)
    /\ NoMetadataIn(localFile)

\* push_to_global has copied a local pattern, which it got from get_pattern
\* with _scope and _file set, into the global store
C38_Witness ==
    /\ last.proc = "push_to_global"
    /\ Len(last.out.done) > 0
    /\ globalFile # last.stdin.before.global
    /\ IsMetadata("_scope")
    /\ "_scope" \in DOMAIN get_pattern(last.out.done[1], last.stdin.before.global,
                                       last.stdin.before.local, platform).pattern

\* pull_from_global has copied a global pattern into the local store
C38_WitnessPull ==
    /\ last.proc = "pull_from_global"
    /\ Len(last.out.done) > 0
    /\ localFile # last.stdin.before.local

\* the local copies, at the start of the push, of the pushed ids that the
\* global store had too
InBoth ==
    {id \in ExistingIds(read_patterns(last.stdin.before.local))
             \cap ExistingIds(read_patterns(last.stdin.before.global)) :
        ~last.stdin.pattern_ids.given
            \/ \E i \in 1..Len(last.stdin.pattern_ids.ids) : last.stdin.pattern_ids.ids[i] = id}

Listed(list, entry) == \E i \in 1..Len(list) : list[i] = entry

\* C39: push_to_global treats a local pattern whose id is in the global store
\* too as merge_strategy says: with 'overwrite' the global pattern of that id
\* ends equal to the local one and the id is in `pushed`; with 'skip' the
\* global store stays as it was and the id is in `skipped` with the reason
\* 'Already exists in global'
C39_PushFollowsTheStrategy ==
    last.proc = "push_to_global" =>
        \A id \in InBoth :
            LET was == read_patterns(last.stdin.before.local)
                now == read_patterns(globalFile)
            IN  /\ last.stdin.merge_strategy = "overwrite" =>
                       /\ Listed(last.out.done, id)
                       /\ find_pattern(now, id) # 0
                       /\ now[find_pattern(now, id)] = was[find_pattern(was, id)]
                /\ last.stdin.merge_strategy = "skip" =>
                       /\ globalFile = last.stdin.before.global
                       /\ Listed(last.out.skipped, <<id, "Already exists in global">>)

=============================================================================
